---- MODULE Spec2Model ----
(***************************************************************************)
(* CodingSim: the request guard library (app/lib/limiter.js), the code     *)
(* execution gateway (app/api/run/route.js), the exercise generation       *)
(* gateway (app/api/generate-questions/route.js) with its repair of        *)
(* the model's questions, and the page component Home.                     *)
(*                                                                         *)
(* Five specifications share the definitions of the guard library:         *)
(*   SpecLimiter  the rate limiter driven by the two gateways' entries,    *)
(*                with a millisecond clock;                                *)
(*   Spec         one gateway request at a time, from its arrival to its   *)
(*                response, with every outbound call recorded;             *)
(*   SpecUI       the page: its state, its effects and its requests;       *)
(*   SpecRepair   validateDocsUrl, normalizeOutput and the repair of the   *)
(*                model's questions, applied to values drawn from bounded  *)
(*                sets;                                                    *)
(*   SpecOverlap  several requests in one server process, each from its    *)
(*                entry into rateLimit to its response.                    *)
(***************************************************************************)
EXTENDS Integers, Sequences, FiniteSets, TLC

VARIABLES
    buckets,      \* limiter.js:2   const buckets = new Map()
    now,          \* Date.now(), in milliseconds
    rl,           \* what the last gateway entry got from rateLimit, and sent
    win,          \* per key: the fixed window the calls fall in (observer)
    retry,        \* the back-off of the client that was last rejected
    ticks,        \* clock steps taken so far
    pc,           \* where the request in flight is in its handler
    req,          \* the request in flight: headers and parsed body
    casesToRun,   \* run/route.js:191
    i,            \* run/route.js:204  loop index
    results,      \* run/route.js:200
    passedCount,  \* run/route.js:201
    calls,        \* outbound calls made for the request in flight
    faults,       \* sandbox calls of the request that did not answer nominally
    served,       \* requests answered so far
    resp,         \* the response of the request last answered
    ui,           \* the page component Home: its React state, the closure its
                  \* keydown listener holds, and its requests in flight
    norm,         \* a value handed to the guard library or to the generation
                  \* gateway's normalization, and what came back
    flight        \* the requests a server process handles at the same time:
                  \* where each is in its handler, and what rateLimit gave it

limVars == <<buckets, now, rl, win, retry, ticks>>
gwVars  == <<pc, req, casesToRun, i, results, passedCount, calls, faults, served, resp>>
auxVars == <<ui, norm, flight>>
vars    == <<buckets, now, rl, win, retry, ticks,
             pc, req, casesToRun, i, results, passedCount, calls, faults, served, resp,
             ui, norm, flight>>

None == "none"

(***************************************************************************)
(* Bounds of the model.                                                    *)
(***************************************************************************)
MaxTicks      == 2   \* clock steps in one behaviour of SpecLimiter
MaxOver       == 1   \* calls followed past a bucket's limit
MaxBackground == 1   \* calls on the key that is not being driven to its limit
MaxServed     == 1   \* requests answered in one behaviour of Spec
MaxFaults     == 1   \* non-nominal sandbox answers in one request
MaxLists      == 1   \* exercise lists the page receives in one behaviour of SpecUI
MaxRuns       == 2   \* run requests the page sends

(***************************************************************************)
(* Program constants.                                                      *)
(***************************************************************************)
MAX_CODE_CHARS   == 40000
MAX_INPUT_CHARS  == 4000
MAX_CASES_RUN    == 12
MAX_STDOUT_CHARS == 8000
RunLimit         == 30
GenLimit         == 10
WindowMs         == 300000
MaxUrlChars      == 600

Max(a, b) == IF a >= b THEN a ELSE b
Min(a, b) == IF a <= b THEN a ELSE b

\* Math.ceil(x / 1000) for an integer x of either sign.
CeilDiv1000(x) == -((-x) \div 1000)

(***************************************************************************)
(* Strings.  A JavaScript string is a sequence of one-character strings.   *)
(* A text is such a sequence with at most one "#", which stands for a      *)
(* run of `run` characters "x": so that strings of 4,000 or 8,000          *)
(* characters keep their real length.                                      *)
(* The strings drawn below have no backslash, no exponent and fewer than   *)
(* 16 digits, so a JSON string holds no escape and a number prints in      *)
(* plain decimal notation.                                                 *)
(***************************************************************************)
Filler == "#"

Range(s) == {s[k] : k \in 1..Len(s)}

Text(s, run) == [s |-> s, run |-> IF Filler \in Range(s) THEN run ELSE 0]

Str(s) == Text(s, 0)

\* s.length
StrLen(t) == IF t.run > 0 THEN Len(t.s) - 1 + t.run ELSE Len(t.s)

\* The characters String.prototype.trim removes, among those modelled.
WhiteSpace == {" ", "\n", "\t", "\r"}

TrimSeq(s) ==
    LET keep == {k \in 1..Len(s) : s[k] \notin WhiteSpace}
    IN  IF keep = {} THEN <<>>
        ELSE SubSeq(s, CHOOSE k \in keep : \A m \in keep : k <= m,
                       CHOOSE k \in keep : \A m \in keep : k >= m)

\* s.trim()
Trim(t) == Text(TrimSeq(t.s), t.run)

\* s.slice(0, n)
SliceTo(t, n) ==
    IF t.run = 0 THEN Str(SubSeq(t.s, 1, Min(n, Len(t.s))))
    ELSE LET p == CHOOSE k \in 1..Len(t.s) : t.s[k] = Filler
         IN  IF n <= p - 1 THEN Str(SubSeq(t.s, 1, n))
             ELSE IF n <= p - 1 + t.run THEN Text(SubSeq(t.s, 1, p), n - (p - 1))
             ELSE Text(SubSeq(t.s, 1, Min(Len(t.s), n - t.run + 1)), t.run)

\* a + b, for b without a run
Concat(t, b) == Text(t.s \o b, t.run)

Digits == {"0", "1", "2", "3", "4", "5", "6", "7", "8", "9"}

AllDigits(s) == Len(s) >= 1 /\ \A k \in 1..Len(s) : s[k] \in Digits

\* run/route.js:39  /^-?\d+(\.\d+)?$/.test(raw)
MatchesNumber(s) ==
    LET body == IF Len(s) >= 1 /\ s[1] = "-" THEN Tail(s) ELSE s
        dots == {k \in 1..Len(body) : body[k] = "."}
    IN  \/ AllDigits(body)
        \/ /\ Cardinality(dots) = 1
           /\ LET p == CHOOSE k \in dots : TRUE
              IN  AllDigits(SubSeq(body, 1, p - 1)) /\ AllDigits(SubSeq(body, p + 1, Len(body)))

RECURSIVE StripLeadingZeros(_)
StripLeadingZeros(s) ==
    IF Len(s) > 1 /\ s[1] = "0" THEN StripLeadingZeros(Tail(s)) ELSE s

RECURSIVE StripTrailingZeros(_)
StripTrailingZeros(s) ==
    IF Len(s) >= 1 /\ s[Len(s)] = "0" THEN StripTrailingZeros(SubSeq(s, 1, Len(s) - 1)) ELSE s

\* String(Number(s)) for s matching -?\d+(\.\d+)?
NumberToString(s) ==
    LET neg  == s[1] = "-"
        body == IF neg THEN Tail(s) ELSE s
        dots == {k \in 1..Len(body) : body[k] = "."}
        p    == IF dots = {} THEN Len(body) + 1 ELSE CHOOSE k \in dots : TRUE
        int  == StripLeadingZeros(SubSeq(body, 1, p - 1))
        frac == StripTrailingZeros(SubSeq(body, p + 1, Len(body)))
        zero == int = <<"0">> /\ frac = <<>>
    IN  (IF neg /\ ~zero THEN <<"-">> ELSE <<>>) \o int
            \o (IF frac = <<>> THEN <<>> ELSE <<".">> \o frac)

(***************************************************************************)
(* JSON.parse followed by JSON.stringify: a parser that returns the        *)
(* compact text of the value it read.                                      *)
(***************************************************************************)
JsonWs == {" ", "\n", "\t", "\r"}

JFail == [ok |-> FALSE, out |-> <<>>, next |-> 0]

JOk(out, next) == [ok |-> TRUE, out |-> out, next |-> next]

RECURSIVE SkipWs(_, _)
SkipWs(s, p) == IF p <= Len(s) /\ s[p] \in JsonWs THEN SkipWs(s, p + 1) ELSE p

RECURSIVE DigitsEnd(_, _)
DigitsEnd(s, p) == IF p <= Len(s) /\ s[p] \in Digits THEN DigitsEnd(s, p + 1) ELSE p

JLiteral(s, p, word) ==
    IF p + Len(word) - 1 <= Len(s) /\ SubSeq(s, p, p + Len(word) - 1) = word
    THEN JOk(word, p + Len(word)) ELSE JFail

\* The closing quote of the string that opens before p, or 0.
RECURSIVE StringEnd(_, _)
StringEnd(s, p) ==
    IF p > Len(s) THEN 0
    ELSE IF s[p] = "\"" THEN p
    ELSE IF s[p] \in {"\n", "\t", "\r"} THEN 0
    ELSE StringEnd(s, p + 1)

JString(s, p) ==
    LET e == StringEnd(s, p + 1)
    IN  IF e = 0 THEN JFail ELSE JOk(SubSeq(s, p, e), e + 1)

JNumber(s, p) ==
    LET q  == IF s[p] = "-" THEN p + 1 ELSE p
        ie == DigitsEnd(s, q)
        intOk == ie > q /\ (s[q] = "0" => ie = q + 1)
        hasFrac == ie <= Len(s) /\ s[ie] = "."
        fe == IF hasFrac THEN DigitsEnd(s, ie + 1) ELSE ie
    IN  IF intOk /\ (hasFrac => fe > ie + 1)
        THEN JOk(NumberToString(SubSeq(s, p, fe - 1)), fe) ELSE JFail

\* An array index key ("0", "7", "12"): JSON.stringify lists these first.
IsIndexKey(k) ==
    LET d == SubSeq(k, 2, Len(k) - 1)
    IN  AllDigits(d) /\ (d[1] = "0" => Len(d) = 1)

DigitValue(c) == CHOOSE n \in 0..9 : <<"0", "1", "2", "3", "4", "5", "6", "7", "8", "9">>[n + 1] = c

RECURSIVE KeyValue(_)
KeyValue(d) == IF d = <<>> THEN 0 ELSE 10 * KeyValue(SubSeq(d, 1, Len(d) - 1)) + DigitValue(d[Len(d)])

IndexOf(k) == KeyValue(SubSeq(k, 2, Len(k) - 1))

\* The members of a parsed object in the order JSON.stringify writes them: a
\* key keeps the place of its first occurrence and the value of its last;
\* index keys come first, in ascending order.
RECURSIVE SortIndexKeys(_)
SortIndexKeys(ms) ==
    IF ms = <<>> THEN <<>>
    ELSE LET m == CHOOSE a \in 1..Len(ms) : \A b \in 1..Len(ms) : IndexOf(ms[a].k) <= IndexOf(ms[b].k)
         IN  <<ms[m]>> \o SortIndexKeys(SubSeq(ms, 1, m - 1) \o SubSeq(ms, m + 1, Len(ms)))

SelectMembers(ms, keep(_)) ==
    LET F[n \in 0..Len(ms)] ==
            IF n = 0 THEN <<>>
            ELSE IF keep(n) THEN Append(F[n - 1], ms[n]) ELSE F[n - 1]
    IN  F[Len(ms)]

ObjectMembers(ms) ==
    LET first(n) == \A m \in 1..(n - 1) : ms[m].k # ms[n].k
        lastOf(n) == CHOOSE m \in 1..Len(ms) :
                        ms[m].k = ms[n].k /\ \A j \in (m + 1)..Len(ms) : ms[j].k # ms[n].k
        merged == [n \in 1..Len(ms) |-> [k |-> ms[n].k, v |-> ms[lastOf(n)].v]]
        uniq == SelectMembers(merged, first)
        isIdx(n) == IsIndexKey(uniq[n].k)
        notIdx(n) == ~IsIndexKey(uniq[n].k)
    IN  SortIndexKeys(SelectMembers(uniq, isIdx)) \o SelectMembers(uniq, notIdx)

RECURSIVE JoinMembers(_)
JoinMembers(ms) ==
    IF ms = <<>> THEN <<>>
    ELSE ms[1].k \o <<":">> \o ms[1].v
            \o (IF Len(ms) > 1 THEN <<",">> ELSE <<>>) \o JoinMembers(Tail(ms))

RECURSIVE JValue(_, _), JElements(_, _, _), JMembers(_, _, _)
JValue(s, p0) ==
    LET p == SkipWs(s, p0)
    IN  IF p > Len(s) THEN JFail
        ELSE IF s[p] = "[" THEN
            LET q == SkipWs(s, p + 1)
            IN  IF q <= Len(s) /\ s[q] = "]" THEN JOk(<<"[", "]">>, q + 1)
                ELSE JElements(s, q, <<>>)
        ELSE IF s[p] = "{" THEN
            LET q == SkipWs(s, p + 1)
            IN  IF q <= Len(s) /\ s[q] = "}" THEN JOk(<<"{", "}">>, q + 1)
                ELSE JMembers(s, q, <<>>)
        ELSE IF s[p] = "\"" THEN JString(s, p)
        ELSE IF s[p] = "n" THEN JLiteral(s, p, <<"n", "u", "l", "l">>)
        ELSE IF s[p] = "t" THEN JLiteral(s, p, <<"t", "r", "u", "e">>)
        ELSE IF s[p] = "f" THEN JLiteral(s, p, <<"f", "a", "l", "s", "e">>)
        ELSE IF s[p] = "-" \/ s[p] \in Digits THEN JNumber(s, p)
        ELSE JFail

JElements(s, p, acc) ==
    LET v == JValue(s, p)
        q == SkipWs(s, v.next)
    IN  IF ~v.ok \/ q > Len(s) THEN JFail
        ELSE IF s[q] = "," THEN JElements(s, q + 1, acc \o v.out \o <<",">>)
        ELSE IF s[q] = "]" THEN JOk(<<"[">> \o acc \o v.out \o <<"]">>, q + 1)
        ELSE JFail

JMembers(s, p0, acc) ==
    LET p == SkipWs(s, p0)
        k == IF p <= Len(s) /\ s[p] = "\"" THEN JString(s, p) ELSE JFail
        c == SkipWs(s, k.next)
        v == IF k.ok /\ c <= Len(s) /\ s[c] = ":" THEN JValue(s, c + 1) ELSE JFail
        q == SkipWs(s, v.next)
        ms == Append(acc, [k |-> k.out, v |-> v.out])
    IN  IF ~v.ok \/ q > Len(s) THEN JFail
        ELSE IF s[q] = "," THEN JMembers(s, q + 1, ms)
        ELSE IF s[q] = "}" THEN JOk(<<"{">> \o JoinMembers(ObjectMembers(ms)) \o <<"}">>, q + 1)
        ELSE JFail

\* JSON.parse(s): whether it returns, and JSON.stringify of what it returns.
JsonParse(s) ==
    LET v == JValue(s, 1)
    IN  IF v.ok /\ SkipWs(s, v.next) > Len(s) THEN v ELSE JFail

\* run/route.js:21-28
looksJsonLike(s) ==
    LET t == TrimSeq(s)
    IN  /\ Len(t) >= 1
        /\ \/ t[1] = "{" /\ t[Len(t)] = "}"
           \/ t[1] = "[" /\ t[Len(t)] = "]"
           \/ t[1] = "\"" /\ t[Len(t)] = "\""

\* Variant: a JSON string is returned as the string it holds
MutnormalizeOutput(value) ==
    LET raw == Trim(value)
    IN  IF raw.s = <<"n", "u", "l", "l">> THEN raw
        ELSE IF raw.s = <<"t", "r", "u", "e">> THEN raw
        ELSE IF raw.s = <<"f", "a", "l", "s", "e">> THEN raw
        ELSE IF raw.s # <<>> /\ MatchesNumber(raw.s) THEN Str(NumberToString(raw.s))
        ELSE IF looksJsonLike(raw.s)
             THEN (IF JsonParse(raw.s).ok
                   THEN (IF raw.s[1] = "\""
                         THEN Text(SubSeq(JsonParse(raw.s).out, 2, Len(JsonParse(raw.s).out) - 1), raw.run)
                         ELSE Text(JsonParse(raw.s).out, raw.run))
                   ELSE raw)
        ELSE raw

\* run/route.js:30-54
normalizeOutput(value) ==
    LET raw == Trim(value)
    IN  IF raw.s = <<"n", "u", "l", "l">> THEN raw
        ELSE IF raw.s = <<"t", "r", "u", "e">> THEN raw
        ELSE IF raw.s = <<"f", "a", "l", "s", "e">> THEN raw
        ELSE IF raw.s # <<>> /\ MatchesNumber(raw.s) THEN Str(NumberToString(raw.s))
        ELSE IF looksJsonLike(raw.s)
             THEN (IF JsonParse(raw.s).ok THEN Text(JsonParse(raw.s).out, raw.run) ELSE raw)
        ELSE raw


(***************************************************************************)
(* limiter.js                                                              *)
(***************************************************************************)
Gateways == {"run", "gen"}
Ips      == {"unknown", "1.1.1.1"}

KeyOf(gw, ip) == <<gw, ip>>
Keys == {KeyOf(gw, ip) : gw \in Gateways, ip \in Ips}

LimitOf(gw) == IF gw = "run" THEN RunLimit ELSE GenLimit

NoBucket == [count |-> -1, resetAt |-> -1]

\* line 11: buckets.get(key) || { count: 0, resetAt: now + windowMs }
BucketGet(bs, key, t, windowMs) ==
    IF bs[key] = NoBucket THEN [count |-> 0, resetAt |-> t + windowMs] ELSE bs[key]

\* Variant: a new window opens with the old window's count
MutBucketReset(bucket, t, windowMs) ==
    IF t > bucket.resetAt THEN [bucket EXCEPT !.resetAt = t + windowMs] ELSE bucket

\* Variant: the calls past the limit show in `remaining`
MutRemaining(count, limit) == limit - count

\* Variant: the window already expired at resetAt itself
MutExpired(t, bucket) == t >= bucket.resetAt

\* line 13: the window has expired
Expired(t, bucket) == t > bucket.resetAt

\* lines 13-16
BucketReset(bucket, t, windowMs) ==
    IF Expired(t, bucket) THEN [count |-> 0, resetAt |-> t + windowMs] ELSE bucket

\* line 18
BucketBump(bucket) == [bucket EXCEPT !.count = @ + 1]

\* line 22
Allowed(count, limit) == count <= limit

\* line 21
Remaining(count, limit) == Max(0, limit - count)

\* Variant: a call past the limit opens its window again
MutrateLimit(bs, key, limit, windowMs, t) ==
    LET bumped == BucketBump(BucketReset(BucketGet(bs, key, t, windowMs), t, windowMs))
        bucket == IF bumped.count > limit THEN [bumped EXCEPT !.resetAt = t + windowMs]
                  ELSE bumped
    IN  [buckets   |-> [bs EXCEPT ![key] = bucket],
         allowed   |-> Allowed(bucket.count, limit),
         remaining |-> Remaining(bucket.count, limit),
         resetAt   |-> bucket.resetAt]

\* rateLimit({key, limit, windowMs}) at time t on the map bs: the map it leaves
\* and the object it returns.
rateLimit(bs, key, limit, windowMs, t) ==
    LET bucket == BucketBump(BucketReset(BucketGet(bs, key, t, windowMs), t, windowMs))
    IN  [buckets   |-> [bs EXCEPT ![key] = bucket],
         allowed   |-> Allowed(bucket.count, limit),
         remaining |-> Remaining(bucket.count, limit),
         resetAt   |-> bucket.resetAt]

\* run/route.js:167, generate-questions/route.js:103
\* String(Math.ceil((rl.resetAt - Date.now()) / 1000)), as the number it prints
RetryAfter(resetAt, t) == CeilDiv1000(resetAt - t)

(***************************************************************************)
(* The entry of both gateways: run/route.js:161-169 and                    *)
(* generate-questions/route.js:90-109.                                     *)
(***************************************************************************)
NoKey == <<None, None>>

NoRl == [key |-> NoKey, gw |-> None, at |-> 0, allowed |-> TRUE, remaining |-> 0,
         resetAt |-> 0, prev |-> [count |-> -1, resetAt |-> -1], status |-> 0,
         retryAfter |-> 0, isRetry |-> FALSE]

NoRetry == [key |-> NoKey, gw |-> None, ip |-> None, at |-> 0]

NoWin == [first |-> -1, n |-> 0, ok |-> 0, prevFull |-> FALSE, prevOk |-> 0,
          adjacent |-> FALSE, total |-> 0]

\* The fixed window a call at time t on a key falls in, counted from the first
\* call of the window: what an observer of the traffic computes.
\* total counts the key's calls up to MaxBackground + 1, for TrafficBound only.
\* ok counts the window's calls that were allowed.  prevFull tells that the
\* window before it had exactly `limit` calls, prevOk how many of those were
\* allowed, and adjacent that this window opened in the millisecond after
\* that window's boundary.
WinAfter(w, t, allowed, limit) ==
    LET one == IF allowed THEN 1 ELSE 0
    IN  IF w.first = -1 \/ t > w.first + WindowMs
        THEN [first |-> t, n |-> 1, ok |-> one,
              prevFull |-> (w.n = limit),
              prevOk   |-> IF w.n = limit THEN w.ok ELSE 0,
              adjacent |-> (w.n = limit /\ t = w.first + WindowMs + 1),
              total |-> Min(w.total + 1, MaxBackground + 1)]
        ELSE [w EXCEPT !.n = @ + 1, !.ok = @ + one,
                       !.total = Min(@ + 1, MaxBackground + 1)]

\* The handler's first statements for a request of gateway gw from ip: the call
\* of rateLimit and, when it is refused, the 429 with its Retry-After header.
\* d is the time that passes between rateLimit's Date.now() and the header's.
Enter(gw, ip, d, isRetry) ==
    LET key == KeyOf(gw, ip)
        r   == rateLimit(buckets, key, LimitOf(gw), WindowMs, now)
    IN  /\ buckets' = r.buckets
        /\ win' = [win EXCEPT ![key] = WinAfter(@, now, r.allowed, LimitOf(gw))]
        /\ now' = IF r.allowed THEN now ELSE now + d
        /\ rl' = [key        |-> key,
                  gw         |-> gw,
                  at         |-> now,
                  allowed    |-> r.allowed,
                  remaining  |-> r.remaining,
                  resetAt    |-> r.resetAt,
                  prev       |-> buckets[key],
                  status     |-> IF r.allowed THEN 0 ELSE 429,
                  retryAfter |-> IF r.allowed THEN 0 ELSE RetryAfter(r.resetAt, now + d),
                  isRetry    |-> isRetry]
        /\ retry' = IF r.allowed
                    THEN (IF retry.key = key THEN NoRetry ELSE retry)
                    ELSE [key |-> key, gw |-> gw, ip |-> ip,
                          at |-> now + d + 1000 * RetryAfter(r.resetAt, now + d)]

\* The bounds on the traffic that SpecLimiter follows.
CountAfter(key, t) == BucketBump(BucketReset(BucketGet(buckets, key, t, WindowMs), t, WindowMs)).count

TrafficBound(gw, ip) ==
    LET key == KeyOf(gw, ip)
    IN  /\ CountAfter(key, now) <= LimitOf(gw) + MaxOver
        /\ \/ win[key].total < MaxBackground
           \/ \A k \in Keys \ {key} : win[k].total <= MaxBackground

\* A request arrives at a gateway (not the retry of a client that backed off).
LimArrive(gw, ip, d) ==
    /\ TrafficBound(gw, ip)
    /\ Enter(gw, ip, d, FALSE)
    /\ UNCHANGED <<ticks>>
    /\ UNCHANGED <<gwVars, auxVars>>

\* The client that was rejected has waited the Retry-After seconds (or 1 ms
\* more) since it read the 429.
LimBackoff(e) ==
    /\ retry # NoRetry
    /\ now < retry.at + e
    /\ ticks < MaxTicks
    /\ ticks' = ticks + 1
    /\ now' = retry.at + e
    /\ UNCHANGED <<buckets, rl, win, retry>>
    /\ UNCHANGED <<gwVars, auxVars>>

\* ... and sends its one retry.
LimRetry(d) ==
    /\ retry # NoRetry
    /\ now >= retry.at
    /\ CountAfter(retry.key, now) <= LimitOf(retry.gw) + MaxOver + 1
    /\ Enter(retry.gw, retry.ip, d, TRUE)
    /\ UNCHANGED <<ticks>>
    /\ UNCHANGED <<gwVars, auxVars>>

TickSteps == {1, WindowMs}

LimTick(dt) ==
    /\ ticks < MaxTicks
    /\ ticks' = ticks + 1
    /\ now' = now + dt
    /\ UNCHANGED <<buckets, rl, win, retry>>
    /\ UNCHANGED <<gwVars, auxVars>>

(***************************************************************************)
(* limiter.js:31-38  getClientIp.  The x-forwarded-for header is held as   *)
(* the sequence of its comma-separated segments, already trimmed; an       *)
(* absent or empty header is the empty sequence (the empty string).        *)
(***************************************************************************)
getClientIp(headers) ==
    IF headers.xf # <<>> THEN headers.xf[1]
    ELSE IF headers.xr # "" THEN headers.xr
    ELSE "unknown"

HeaderSets ==
    { [xf |-> <<>>, xr |-> ""],
      [xf |-> <<"1.1.1.1", "9.9.9.9">>, xr |-> "2.2.2.2"] }

(***************************************************************************)
(* run/route.js: the values of a request body.                             *)
(***************************************************************************)
\* A test case as the body gives it.  obj is FALSE for a null element of the
\* list; a field the case does not have is has |-> FALSE.  An input of kind
\* "unconvertible" is an object String() cannot convert, {"toString": 1}.
Field(text) == [has |-> TRUE, text |-> text]
NoField == [has |-> FALSE, text |-> Str(<<>>)]

Case(name, kind, input, expected) ==
    [obj |-> TRUE, name |-> name, kind |-> kind, input |-> input, expectedOutput |-> expected]

NullCase == [obj |-> FALSE, name |-> "", kind |-> "absent", input |-> Str(<<>>),
             expectedOutput |-> NoField]

Four      == Str(<<"4">>)
PaddedFour == Str(<<" ", "0", "4", "\n">>)
Five      == Str(<<"5">>)
NullText  == Str(<<"n", "u", "l", "l">>)
PairLoose == Str(<<"[", "1", ",", " ", "2", "]">>)
PairTight == Str(<<"[", "1", ",", "2", "]">>)
NotJson   == Str(<<"[", "1", ",">>)
\* "[" "x" * 3998 "]" is not JSON; "\"" "x" * 3998 "\"" is, and has 4,000 characters
QuotedRun(n) == Text(<<"\"", Filler, "\"">>, n - 2)

CaseA    == Case("A", "string", PairLoose, Field(Four))
CaseB    == Case("B", "string", PairTight, Field(PaddedFour))
CaseFive == Case("", "string", NullText, Field(Five))
CaseBare == Case("", "absent", Str(<<>>), NoField)
CaseInv  == Case("inv", "string", NotJson, Field(Four))
CaseBig  == Case("big", "string", QuotedRun(MAX_INPUT_CHARS + 1), Field(Four))
CaseFit  == Case("fit", "string", QuotedRun(MAX_INPUT_CHARS), Field(PairLoose))
CaseObj  == Case("obj", "unconvertible", Str(<<>>), Field(Four))

Repeat(c, n) == [k \in 1..n |-> c]

\* A language field is held as its string, "undefined" when the body has
\* none; NotAString is a field that is truthy and no string (5, true, [1])
NotAString == "not a string"

Undefined == [type |-> "undefined", items |-> <<>>]
NotArray  == [type |-> "other", items |-> <<>>]
List(items) == [type |-> "array", items |-> items]

Code(type, len) == [type |-> type, len |-> len]

BadCodes == { Code("undefined", 0), Code("string", 0), Code("number", 0),
              Code("string", MAX_CODE_CHARS + 1) }

GoodCode == Code("string", MAX_CODE_CHARS)

RunBody(code, language, testCases, hiddenTestCases, mode) ==
    [code |-> code, language |-> language, testCases |-> testCases,
     hiddenTestCases |-> hiddenTestCases, mode |-> mode]

Visible13 == List(Repeat(CaseA, MAX_CASES_RUN + 1))
Hidden11  == List(<<CaseBig>> \o Repeat(CaseB, MAX_CASES_RUN - 2))

\* <<testCases, hiddenTestCases>>
ShortLists ==
    { <<Undefined, Undefined>>,
      <<NotArray, List(<<CaseBare>>)>>,
      <<List(<<CaseA, CaseFive>>), List(<<CaseBare, CaseB>>)>>,
      <<List(<<NullCase, CaseFit>>), NotArray>>,
      <<List(<<CaseInv, CaseObj, CaseA>>), Undefined>> }

\* <<testCases, hiddenTestCases, mode>>: more cases selected than are run
LongLists ==
    { <<Visible13, List(<<CaseBare>>), "run">>,
      <<List(<<CaseInv, CaseB, CaseBig>>), Hidden11, "submit">> }

\* The bodies followed: good code with every list and mode, the three
\* languages, and every bad code with and without cases to run.
RunBodies ==
    { RunBody(GoodCode, "undefined", p[1], p[2], m) :
        p \in ShortLists, m \in {"undefined", "run", "submit", "debug"} }
    \cup { RunBody(GoodCode, "undefined", p[1], p[2], p[3]) : p \in LongLists }
    \cup { RunBody(GoodCode, l, List(<<CaseA, CaseFive>>), Undefined, "run") :
        l \in {"Python", "typescript", "ruby", NotAString} }
    \cup { RunBody(c, "undefined", v, Undefined, "submit") :
        c \in BadCodes, v \in {Undefined, List(<<CaseA, CaseFive>>)} }

\* line 14: (lang || "").toLowerCase(), on the languages drawn
ToLowerCase(l) ==
    IF l = "undefined" THEN ""
    ELSE IF l = "Python" THEN "python"
    ELSE l

\* line 14, generate-questions/route.js:11: the value has no toLowerCase method
LowerCaseThrows(l) == l = NotAString

\* lines 13-19
mapLanguage(lang) ==
    LET l == ToLowerCase(lang)
    IN  IF l = "javascript" THEN [language |-> "javascript", version |-> "18.15.0"]
        ELSE IF l = "typescript" THEN [language |-> "typescript", version |-> "5.0.3"]
        ELSE IF l = "python" THEN [language |-> "python", version |-> "3.10.0"]
        ELSE [language |-> "javascript", version |-> "18.15.0"]

\* lines 172-179: a default applies to a field that is undefined
ModeOf(body) == IF body.mode = "undefined" THEN "run" ELSE body.mode

\* lines 188-189
ArrayOrEmpty(list) == IF list.type = "array" THEN list.items ELSE <<>>

\* lines 191-192
SelectCases(mode, visible, hidden) ==
    IF mode = "submit" THEN visible \o hidden ELSE visible

\* line 181: !code || typeof code !== "string"
CodeMissing(code) ==
    \/ code.type = "undefined"
    \/ code.type = "string" /\ code.len = 0
    \/ code.type # "string"

\* Variant: a code of exactly MAX_CODE_CHARS characters is too long
MutCodeTooLong(code) == code.len >= MAX_CODE_CHARS

\* line 184
CodeTooLong(code) == code.len > MAX_CODE_CHARS

\* line 204: Math.min(casesToRun.length, MAX_CASES_RUN)
CasesCap(cases) == Min(Len(cases), MAX_CASES_RUN)

\* line 205: casesToRun[i] || {}
CaseAt(cases, k) == IF cases[k].obj THEN cases[k] ELSE NullCase

\* line 206: tc.name ?? `Case ${i + 1}`  (k is i + 1)
NameOf(tc, k) ==
    IF tc.name # "" THEN [given |-> TRUE, text |-> tc.name, n |-> 0]
    ELSE [given |-> FALSE, text |-> "Case", n |-> k]

\* lines 207-208: String() of an object that has no callable toString throws
ConversionThrows(tc) == tc.kind = "unconvertible"

\* line 207: String(tc.input ?? "null")
InputOf(tc) == IF tc.kind = "absent" THEN NullText ELSE tc.input

\* line 208: String(tc.expectedOutput ?? "")
ExpectedOf(tc) == IF tc.expectedOutput.has THEN tc.expectedOutput.text ELSE Str(<<>>)

\* line 210
InputTooLarge(input) == StrLen(input) > MAX_INPUT_CHARS

\* lines 225-227: JSON.parse(input) throws
InputNotJson(input) == ~JsonParse(input.s).ok

\* Variant: the first hidden case is reported as visible
MutHiddenFlag(mode, k, visibleLen) == mode = "submit" /\ k - 1 > visibleLen

\* lines 219, 236, 260, 288  (k is i + 1)
HiddenFlag(mode, k, visibleLen) == mode = "submit" /\ k - 1 >= visibleLen

\* lines 211-220, 228-237, 252-261: the result of a case that did not run
FailedResult(name, expectedOutput, stderr, hidden) ==
    [name |-> name, passed |-> FALSE, expectedOutput |-> expectedOutput,
     actualOutput |-> Str(<<>>), stderr |-> stderr, exitCode |-> 1, hidden |-> hidden]

TruncatedMark == <<"\n", ".", ".", ".", "[", "t", "r", "u", "n", "c", "a", "t", "e", "d", "]">>

\* lines 265, 270-272
CapturedStdout(run) ==
    LET stdout == Trim(IF run.has /\ run.stdout.has THEN run.stdout.text ELSE Str(<<>>))
    IN  IF StrLen(stdout) > MAX_STDOUT_CHARS
        THEN Concat(SliceTo(stdout, MAX_STDOUT_CHARS), TruncatedMark)
        ELSE stdout

\* line 267: piston?.run?.code ?? 0
ExitCodeOf(run) == IF run.has /\ run.code.has THEN run.code.val ELSE 0

\* Variant: the exit code is ignored
MutPassed(exitCode, stdout, expectedOutput) ==
    normalizeOutput(stdout) = normalizeOutput(expectedOutput)

\* line 277
Passed(exitCode, stdout, expectedOutput) ==
    exitCode = 0 /\ normalizeOutput(stdout) = normalizeOutput(expectedOutput)

\* lines 265-289: the result of a case the sandbox answered
RanResult(name, expectedOutput, run, hidden) ==
    [name |-> name,
     passed |-> Passed(ExitCodeOf(run), CapturedStdout(run), expectedOutput),
     expectedOutput |-> expectedOutput,
     actualOutput |-> CapturedStdout(run),
     stderr |-> IF run.has THEN run.stderr ELSE "",
     exitCode |-> ExitCodeOf(run),
     hidden |-> hidden]

\* lines 265-266: .trim() of a stdout or stderr that is not a string throws
StreamThrows(run) == run.has /\ run.streams = "notString"

(***************************************************************************)
(* What the sandbox may answer to a call (runOnPiston, lines 133-157):     *)
(*   ok       a 2xx response whose body parses, with the `run` it holds;   *)
(*   http     a non-2xx response: runOnPiston throws "Runner error: ...";  *)
(*   abort    no response within FETCH_TIMEOUT_MS: fetch rejects;          *)
(*   badBody  a 2xx response whose body is not JSON: res.json() rejects.   *)
(***************************************************************************)
Run(stdout, stderr, code) ==
    [has |-> TRUE, streams |-> "string", stdout |-> stdout, stderr |-> stderr, code |-> code]

NoRun == [has |-> FALSE, streams |-> "string", stdout |-> NoField, stderr |-> "",
          code |-> [has |-> FALSE, val |-> 0]]

ExitCode(n) == [has |-> TRUE, val |-> n]
NoExitCode  == [has |-> FALSE, val |-> 0]

Answer(kind, run, message) == [kind |-> kind, run |-> run, message |-> message]

NominalAnswer == Answer("ok", Run(Field(Four), "", ExitCode(0)), "")

OtherAnswers ==
    { Answer("ok", Run(Field(PaddedFour), "", ExitCode(0)), ""),
      Answer("ok", Run(Field(Four), "Error: boom", ExitCode(1)), ""),
      Answer("ok", Run(Field(Four), "", NoExitCode), ""),
      Answer("ok", Run(Field(Text(<<"[", Filler>>, MAX_STDOUT_CHARS)), "", ExitCode(0)), ""),
      Answer("ok", NoRun, ""),
      Answer("ok", [Run(Field(Four), "", ExitCode(0)) EXCEPT !.streams = "notString"], ""),
      Answer("http", NoRun, "Runner error: overloaded"),
      Answer("abort", NoRun, "This operation was aborted"),
      Answer("badBody", NoRun, "Unexpected token < in JSON at position 0") }

SandboxAnswers == {NominalAnswer} \cup OtherAnswers

\* runOnPiston throws (lines 149-153, 138): the per-case catch of line 251 takes it
PistonThrows(a) == a.kind # "ok"


(***************************************************************************)
(* generate-questions/route.js: the values of a request body, and          *)
(* limiter.js:40-58  validateDocsUrl.  Whether new URL() accepts the       *)
(* trimmed string, and the protocol it finds, come with the value.         *)
(***************************************************************************)
DocsUrl(type, text, parses, protocol) ==
    [type |-> type, text |-> text, parses |-> parses, protocol |-> protocol]

UrlRun(n) == Text(<<"h", "t", "t", "p", ":", "/", "/", Filler>>, n - 7)

DocsUrls ==
    { DocsUrl("undefined", Str(<<>>), FALSE, ""),
      DocsUrl("string", Str(<<" ", " ">>), FALSE, ""),
      DocsUrl("string", UrlRun(MaxUrlChars + 1), TRUE, "http:"),
      DocsUrl("string", Str(<<"d", "o", "c", "s">>), FALSE, ""),
      DocsUrl("string", Str(<<"f", "t", "p", ":", "/", "/", "a">>), TRUE, "ftp:"),
      DocsUrl("string", Concat(Text(<<" ", "h", "t", "t", "p", ":", "/", "/", Filler>>, MaxUrlChars - 7), <<" ">>), TRUE, "http:"),
      DocsUrl("string", Str(<<"h", "t", "t", "p", "s", ":", "/", "/", "a">>), TRUE, "https:") }

UrlError(error) == [ok |-> FALSE, error |-> error, value |-> Str(<<>>)]

\* Variant: the string is parsed as a URL before its length is checked
MutvalidateDocsUrl(docsUrl) ==
    LET trimmed == Trim(docsUrl.text)
    IN  IF docsUrl.type # "string" THEN UrlError("docsUrl must be a string")
        ELSE IF StrLen(trimmed) = 0 THEN UrlError("docsUrl is required")
        ELSE IF ~docsUrl.parses THEN UrlError("docsUrl must be a valid URL")
        ELSE IF StrLen(trimmed) > MaxUrlChars THEN UrlError("docsUrl is too long")
        ELSE IF docsUrl.protocol \notin {"http:", "https:"}
             THEN UrlError("docsUrl must start with http:// or https://")
        ELSE [ok |-> TRUE, error |-> "", value |-> trimmed]

validateDocsUrl(docsUrl) ==
    LET trimmed == Trim(docsUrl.text)
    IN  IF docsUrl.type # "string" THEN UrlError("docsUrl must be a string")
        ELSE IF StrLen(trimmed) = 0 THEN UrlError("docsUrl is required")
        ELSE IF StrLen(trimmed) > MaxUrlChars THEN UrlError("docsUrl is too long")
        ELSE IF ~docsUrl.parses THEN UrlError("docsUrl must be a valid URL")
        ELSE IF docsUrl.protocol \notin {"http:", "https:"}
             THEN UrlError("docsUrl must start with http:// or https://")
        ELSE [ok |-> TRUE, error |-> "", value |-> trimmed]

\* generate-questions/route.js:10-15
normalizeLanguage(lang) ==
    LET l == ToLowerCase(lang)
    IN  IF l = "python" THEN "python"
        ELSE IF l = "typescript" THEN "typescript"
        ELSE "javascript"

\* isObject is FALSE for the body `null`, which line 112 cannot destructure
GenBody(isObject, docsUrl, language) ==
    [isObject |-> isObject, docsUrl |-> docsUrl, language |-> language]

GenBodies ==
    { GenBody(TRUE, u, "undefined") : u \in DocsUrls }
    \cup { GenBody(TRUE, DocsUrl("string", Str(<<"h", "t", "t", "p", "s", ":", "/", "/", "a">>), TRUE, "https:"), l) :
             l \in {"Python", "ruby", NotAString} }
    \cup { GenBody(FALSE, DocsUrl("undefined", Str(<<>>), FALSE, ""), "undefined") }

\* What the model service may answer (lines 211-249): the call throws, or it
\* returns a completion whose content is empty, is not JSON, is JSON without
\* a `questions` array, or is JSON with an array of n questions.  In an
\* "unrepairable" array the repair of lines 252-316 throws on the second of
\* the n questions (QuestionThrows).
ModelAnswers ==
    { [kind |-> "throws", n |-> 0], [kind |-> "empty", n |-> 0],
      [kind |-> "notJson", n |-> 0], [kind |-> "noQuestions", n |-> 0],
      [kind |-> "unrepairable", n |-> 2],
      [kind |-> "questions", n |-> 0], [kind |-> "questions", n |-> 5],
      [kind |-> "questions", n |-> 7] }

\* line 252: payload.questions.slice(0, 5)
MaxQuestions == 5


InitLim ==
    /\ buckets = [k \in Keys |-> NoBucket]
    /\ now = 0
    /\ rl = NoRl
    /\ win = [k \in Keys |-> NoWin]
    /\ retry = NoRetry
    /\ ticks = 0

InitGw ==
    /\ pc = "idle"
    /\ req = [gw |-> None, headers |-> [xf |-> <<>>, xr |-> ""], parsed |-> FALSE,
              body |-> [none |-> TRUE]]
    /\ casesToRun = <<>>
    /\ i = 0
    /\ results = <<>>
    /\ passedCount = 0
    /\ calls = <<>>
    /\ faults = 0
    /\ served = 0
    /\ resp = [status |-> 0, error |-> "", retryAfter |-> 0, mode |-> "", passedCount |-> 0,
               total |-> 0, allPassed |-> FALSE, results |-> <<>>, questions |-> 0]

\* The page and the pure functions are not part of the gateways' runs.
InitAux == ui = None /\ norm = None /\ flight = None

InitLimiter == InitLim /\ InitGw /\ InitAux

NextLimiter ==
    \/ \E gw \in Gateways, d \in {0, 1} : LimArrive(gw, "unknown", d)
    \/ \E e \in {0, 1} : LimBackoff(e)
    \/ \E d \in {0, 1} : LimRetry(d)
    \/ \E dt \in TickSteps : LimTick(dt)

SpecLimiter == InitLimiter /\ [][NextLimiter]_vars

(***************************************************************************)
(* Spec: one request at a time through a gateway.                          *)
(***************************************************************************)
NoBody == [none |-> TRUE]

NoReq == [gw |-> None, headers |-> [xf |-> <<>>, xr |-> ""], parsed |-> FALSE, body |-> NoBody]

NoResp == [status |-> 0, error |-> "", retryAfter |-> 0, mode |-> "", passedCount |-> 0,
           total |-> 0, allPassed |-> FALSE, results |-> <<>>, questions |-> 0]

\* NextResponse.json({ error }, { status })
ErrorResponse(status, error) == [NoResp EXCEPT !.status = status, !.error = error]

\* run/route.js:165-168, generate-questions/route.js:98-108
TooManyResponse(gw, retryAfter) ==
    [NoResp EXCEPT !.status = 429,
                   !.error = IF gw = "run" THEN "Too many run requests. Try again later."
                             ELSE "Too many generate requests. Try again later.",
                   !.retryAfter = retryAfter]

\* run/route.js:294-304
RunResponse(mode, passed, res) ==
    [NoResp EXCEPT !.status = 200, !.mode = mode, !.passedCount = passed,
                   !.total = Len(res), !.allPassed = (passed = Len(res)), !.results = res]

\* generate-questions/route.js:252, 318
GenResponse(n) == [NoResp EXCEPT !.status = 200, !.questions = Min(n, MaxQuestions)]

\* run/route.js:305-308, generate-questions/route.js:319-325: the outer catch
ServerError(gw) ==
    ErrorResponse(500, IF gw = "run" THEN "Server error running code"
                       ELSE "Server error generating questions")

\* The response leaves: the handler returns.
Respond(r) ==
    /\ resp' = r
    /\ pc' = "done"
    /\ served' = served + 1

\* The handler's first statements (run/route.js:161-169,
\* generate-questions/route.js:90-109), then `await req.json()`.
Arrive(gw, headers) ==
    /\ pc \in {"idle", "done"}
    /\ served < MaxServed
    /\ Enter(gw, getClientIp(headers), 0, FALSE)
    /\ UNCHANGED auxVars
    /\ req' = [NoReq EXCEPT !.gw = gw, !.headers = headers]
    /\ casesToRun' = <<>>
    /\ i' = 0
    /\ results' = <<>>
    /\ passedCount' = 0
    /\ calls' = <<>>
    /\ faults' = 0
    /\ ticks' = ticks
    /\ IF rl'.allowed
       THEN /\ pc' = IF gw = "run" THEN "runBody" ELSE "genBody"
            /\ resp' = NoResp
            /\ served' = served
       ELSE Respond(TooManyResponse(gw, rl'.retryAfter))

RunArrive(headers) == Arrive("run", headers)

GenArrive(headers) == Arrive("gen", headers)

\* run/route.js:171, generate-questions/route.js:111: req.json() rejects
BodyUnreadable ==
    /\ pc \in {"runBody", "genBody"}
    /\ Respond(ServerError(req.gw))
    /\ UNCHANGED <<req, casesToRun, i, results, passedCount, calls, faults>>
    /\ UNCHANGED <<limVars, auxVars>>

\* run/route.js:171-202
RunReadBody(body) ==
    /\ pc = "runBody"
    /\ req' = [req EXCEPT !.parsed = TRUE, !.body = body]
    /\ LET cases == SelectCases(ModeOf(body), ArrayOrEmpty(body.testCases),
                                ArrayOrEmpty(body.hiddenTestCases))
       IN  IF CodeMissing(body.code)
           THEN Respond(ErrorResponse(400, "code is required")) /\ UNCHANGED casesToRun
           ELSE IF CodeTooLong(body.code)
           THEN Respond(ErrorResponse(400, "Code is too long")) /\ UNCHANGED casesToRun
           ELSE IF Len(cases) = 0
           THEN Respond(ErrorResponse(400, "testCases are required")) /\ UNCHANGED casesToRun
           ELSE IF LowerCaseThrows(body.language)
           THEN Respond(ServerError("run")) /\ casesToRun' = cases
           ELSE /\ casesToRun' = cases
                /\ pc' = "runLoop"
                /\ UNCHANGED <<resp, served>>
    /\ UNCHANGED <<i, results, passedCount, calls, faults>>
    /\ UNCHANGED <<limVars, auxVars>>

Visible == ArrayOrEmpty(req.body.testCases)

\* lines 241-244: the harness of the runtime's language
HarnessOf(runtime) ==
    IF runtime.language = "javascript" THEN "jsHarness"
    ELSE IF runtime.language = "typescript" THEN "tsHarness"
    ELSE "pyHarness"

PendingAnswer == Answer("pending", NoRun, "")

\* lines 134-147: the call of the sandbox for case k; `answer` becomes what
\* the sandbox answered once the call has ended.  timer is the timeout of
\* line 135: armed by the call, fired after FETCH_TIMEOUT_MS, or cleared by
\* the finally of line 155.
SandboxCall(k, runtime, input) ==
    [to |-> "sandbox", case |-> k, language |-> runtime.language,
     version |-> runtime.version, harness |-> HarnessOf(runtime), input |-> input,
     answer |-> PendingAnswer, timer |-> "armed"]

\* The response's status line and headers came; its body never ends.
StalledAnswer == Answer("stalled", NoRun, "")

\* Variant: every case that ran is counted as passed
MutNextPassedCount(count, passed) == count + 1

\* line 278: if (passed) passedCount++
NextPassedCount(count, passed) == IF passed THEN count + 1 ELSE count

\* Variant: the loop does not await the call of the sandbox
MutRunCase ==
    /\ pc \in {"runLoop", "runPiston"}
    /\ i < CasesCap(casesToRun)
    /\ Len(calls) < MAX_CASES_RUN
    /\ LET tc     == CaseAt(casesToRun, i + 1)
           name   == NameOf(tc, i + 1)
           hidden == HiddenFlag(ModeOf(req.body), i + 1, Len(Visible))
       IN  IF ConversionThrows(tc)
           THEN Respond(ServerError("run")) /\ UNCHANGED <<i, results, calls>>
           ELSE IF InputTooLarge(InputOf(tc))
           THEN /\ results' = Append(results,
                        FailedResult(name, ExpectedOf(tc), "Input too large.", hidden))
                /\ i' = i + 1
                /\ UNCHANGED <<pc, resp, served, calls>>
           ELSE IF InputNotJson(InputOf(tc))
           THEN /\ results' = Append(results,
                        FailedResult(name, ExpectedOf(tc), "Testcase input is not valid JSON.", hidden))
                /\ i' = i + 1
                /\ UNCHANGED <<pc, resp, served, calls>>
           ELSE /\ calls' = Append(calls, SandboxCall(i + 1, mapLanguage(req.body.language), InputOf(tc)))
                /\ pc' = "runPiston"
                /\ UNCHANGED <<i, results, resp, served>>
    /\ UNCHANGED <<req, casesToRun, passedCount, faults>>
    /\ UNCHANGED <<limVars, auxVars>>

\* lines 204-250: one turn of the loop, up to the call of the sandbox
RunCase ==
    /\ pc = "runLoop"
    /\ i < CasesCap(casesToRun)
    /\ LET tc     == CaseAt(casesToRun, i + 1)
           name   == NameOf(tc, i + 1)
           hidden == HiddenFlag(ModeOf(req.body), i + 1, Len(Visible))
       IN  IF ConversionThrows(tc)
           THEN Respond(ServerError("run")) /\ UNCHANGED <<i, results, calls>>
           ELSE IF InputTooLarge(InputOf(tc))
           THEN /\ results' = Append(results,
                        FailedResult(name, ExpectedOf(tc), "Input too large.", hidden))
                /\ i' = i + 1
                /\ UNCHANGED <<pc, resp, served, calls>>
           ELSE IF InputNotJson(InputOf(tc))
           THEN /\ results' = Append(results,
                        FailedResult(name, ExpectedOf(tc), "Testcase input is not valid JSON.", hidden))
                /\ i' = i + 1
                /\ UNCHANGED <<pc, resp, served, calls>>
           ELSE /\ calls' = Append(calls, SandboxCall(i + 1, mapLanguage(req.body.language), InputOf(tc)))
                /\ pc' = "runPiston"
                /\ UNCHANGED <<i, results, resp, served>>
    /\ UNCHANGED <<req, casesToRun, passedCount, faults>>
    /\ UNCHANGED <<limVars, auxVars>>

\* lines 250-290: the sandbox call ends, and the rest of the turn
RunPistonReturns(a) ==
    /\ pc = "runPiston"
    /\ a = NominalAnswer \/ faults < MaxFaults
    /\ faults' = IF a = NominalAnswer THEN faults ELSE faults + 1
    /\ calls' = [calls EXCEPT ![Len(calls)].answer = a,
                              ![Len(calls)].timer = IF a.kind = "abort" THEN "fired" ELSE "cleared"]
    /\ LET tc     == CaseAt(casesToRun, i + 1)
           name   == NameOf(tc, i + 1)
           hidden == HiddenFlag(ModeOf(req.body), i + 1, Len(Visible))
       IN  IF PistonThrows(a)
           THEN /\ results' = Append(results, FailedResult(name, ExpectedOf(tc), a.message, hidden))
                /\ i' = i + 1
                /\ pc' = "runLoop"
                /\ UNCHANGED <<passedCount, resp, served>>
           ELSE IF StreamThrows(a.run)
           THEN Respond(ServerError("run")) /\ UNCHANGED <<i, results, passedCount>>
           ELSE LET r == RanResult(name, ExpectedOf(tc), a.run, hidden)
                IN  /\ results' = Append(results, r)
                    /\ passedCount' = NextPassedCount(passedCount, r.passed)
                    /\ i' = i + 1
                    /\ pc' = "runLoop"
                    /\ UNCHANGED <<resp, served>>
    /\ UNCHANGED <<req, casesToRun>>
    /\ UNCHANGED <<limVars, auxVars>>

\* lines 137-156: fetch resolves with a 2xx response; line 154 returns
\* res.json() without awaiting it, so the finally of line 155 clears the
\* timer at once; the body does not end, and nothing in the code ends the
\* await of line 250.
RunPistonStalls ==
    /\ pc = "runPiston"
    /\ faults < MaxFaults
    /\ faults' = faults + 1
    /\ calls' = [calls EXCEPT ![Len(calls)].answer = StalledAnswer,
                              ![Len(calls)].timer = "cleared"]
    /\ pc' = "runStalled"
    /\ UNCHANGED <<req, casesToRun, i, results, passedCount, served, resp>>
    /\ UNCHANGED <<limVars, auxVars>>

\* lines 292-304
RunRespond ==
    /\ pc = "runLoop"
    /\ i >= CasesCap(casesToRun)
    /\ Respond(RunResponse(ModeOf(req.body), passedCount, results))
    /\ UNCHANGED <<req, casesToRun, i, results, passedCount, calls, faults>>
    /\ UNCHANGED <<limVars, auxVars>>

\* generate-questions/route.js:211-223: the call of the model
ModelCall(docsUrl, lang) == [to |-> "model", docsUrl |-> docsUrl, language |-> lang]

\* Variant: the model is called before the body is validated
MutGenReadBody(body) ==
    /\ pc = "genBody"
    /\ req' = [req EXCEPT !.parsed = TRUE, !.body = body]
    /\ calls' = Append(calls, ModelCall(Trim(body.docsUrl.text), normalizeLanguage(body.language)))
    /\ IF ~body.isObject
       THEN Respond(ServerError("gen"))
       ELSE IF ~validateDocsUrl(body.docsUrl).ok
       THEN Respond(ErrorResponse(400, validateDocsUrl(body.docsUrl).error))
       ELSE IF LowerCaseThrows(body.language)
       THEN Respond(ServerError("gen"))
       ELSE pc' = "genModel" /\ UNCHANGED <<resp, served>>
    /\ UNCHANGED <<casesToRun, i, results, passedCount, faults>>
    /\ UNCHANGED <<limVars, auxVars>>

\* generate-questions/route.js:111-223: up to the call of the model
GenReadBody(body) ==
    /\ pc = "genBody"
    /\ req' = [req EXCEPT !.parsed = TRUE, !.body = body]
    /\ IF ~body.isObject
       THEN Respond(ServerError("gen")) /\ UNCHANGED calls
       ELSE IF ~validateDocsUrl(body.docsUrl).ok
       THEN Respond(ErrorResponse(400, validateDocsUrl(body.docsUrl).error)) /\ UNCHANGED calls
       ELSE IF LowerCaseThrows(body.language)
       THEN Respond(ServerError("gen")) /\ UNCHANGED calls
       ELSE /\ calls' = Append(calls, ModelCall(validateDocsUrl(body.docsUrl).value,
                                                normalizeLanguage(body.language)))
            /\ pc' = "genModel"
            /\ UNCHANGED <<resp, served>>
    /\ UNCHANGED <<casesToRun, i, results, passedCount, faults>>
    /\ UNCHANGED <<limVars, auxVars>>

\* generate-questions/route.js:211-325: the model call ends
GenModelReturns(m) ==
    /\ pc = "genModel"
    /\ Respond(IF m.kind \in {"throws", "unrepairable"} THEN ServerError("gen")
               ELSE IF m.kind = "empty" THEN ErrorResponse(500, "No content returned from model")
               ELSE IF m.kind = "notJson" THEN ErrorResponse(500, "Model returned invalid JSON")
               ELSE IF m.kind = "noQuestions"
                    THEN ErrorResponse(500, "Model response missing 'questions' array")
               ELSE GenResponse(m.n))
    /\ UNCHANGED <<req, casesToRun, i, results, passedCount, calls, faults>>
    /\ UNCHANGED <<limVars, auxVars>>

\* A bucket that 30 (or 10) calls at time 0 leave: SpecLimiter reaches it.
FullBucket(key) == [count |-> LimitOf(key[1]), resetAt |-> WindowMs]

FullWin(key) == [NoWin EXCEPT !.first = 0, !.n = LimitOf(key[1]), !.ok = LimitOf(key[1]),
                                !.total = MaxBackground + 1]

Init ==
    /\ \/ buckets = [k \in Keys |-> NoBucket] /\ win = [k \in Keys |-> NoWin]
       \/ buckets = [k \in Keys |-> FullBucket(k)] /\ win = [k \in Keys |-> FullWin(k)]
    /\ now = 0
    /\ rl = NoRl
    /\ retry = NoRetry
    /\ ticks = 0
    /\ InitGw
    /\ InitAux

Next ==
    \/ \E h \in HeaderSets : RunArrive(h)
    \/ \E h \in HeaderSets : GenArrive(h)
    \/ BodyUnreadable
    \/ \E body \in RunBodies : RunReadBody(body)
    \/ RunCase
    \/ \E a \in SandboxAnswers : RunPistonReturns(a)
    \/ RunPistonStalls
    \/ RunRespond
    \/ \E body \in GenBodies : GenReadBody(body)
    \/ \E m \in ModelAnswers : GenModelReturns(m)

Spec == Init /\ [][Next]_vars

(***************************************************************************)
(* SpecUI: the page component Home (src/unnamed/part_000, the resizable    *)
(* variant; part_001, the fixed variant, has the same state, effects and   *)
(* handlers).  A handler runs to its first await, or from a response to    *)
(* its end, in one step; its state updates are rendered and the effects    *)
(* whose dependencies changed run before the next event.                   *)
(***************************************************************************)
\* A question of a generated list, by the marker its starterCode holds:
\* "py" (def solve), "js" (export function solve) or "" (no starter).
Question(starter) == [starterCode |-> starter]

\* part_000:93  useState([]); ver tells one array from another
NoList == [ver |-> 0, qs |-> <<>>]

\* The lists a generation response may carry (data.questions || [], line 296)
GeneratedLists == { <<>>, <<Question("py"), Question("js")>> }

Languages == {"javascript", "python"}

NoQuestion == [ver |-> 0, idx |-> -1]

\* part_000:199-200
currentQuestion(u) ==
    IF Len(u.questions.qs) > 0
    THEN [ver |-> u.questions.ver, idx |-> Min(u.selectedIndex, Len(u.questions.qs) - 1)]
    ELSE NoQuestion

\* The editor's source text: "" at mount, a question's starter code, a
\* language's default scaffold, or one of two texts the user typed.
Source(kind, lang, q, n) == [kind |-> kind, lang |-> lang, q |-> q, n |-> n]

EmptySource == Source("empty", "", NoQuestion, 0)

\* part_000:8-34
defaultStarter(lang) ==
    Source("default", IF lang \in {"python", "typescript"} THEN lang ELSE "javascript",
           NoQuestion, 0)

\* part_000:36-41
starterMatchesLanguage(starterCode, lang) ==
    IF lang = "python" THEN starterCode = "py" ELSE starterCode = "js"

\* Variant: the starter code is shown whatever the selected language
MutStarterFor(u) ==
    LET q  == currentQuestion(u)
        sc == u.questions.qs[q.idx + 1].starterCode
    IN  IF sc # "" THEN Source("starter", "", q, 0) ELSE defaultStarter(u.language)

\* part_000:205-207, 268-270: ok && sc.trim() ? sc : defaultStarter(language)
StarterFor(u) ==
    LET q  == currentQuestion(u)
        sc == u.questions.qs[q.idx + 1].starterCode
    IN  IF starterMatchesLanguage(sc, u.language) /\ sc # ""
        THEN Source("starter", "", q, 0)
        ELSE defaultStarter(u.language)

\* part_000:109  the last run result: null, the response's data, or { error }
RunResult(kind, q, allPassed) == [kind |-> kind, q |-> q, allPassed |-> allPassed]

NoRunResult == RunResult("null", NoQuestion, FALSE)

\* What localStorage holds under "cs:language" at mount: nothing (getItem
\* returns null), a language the page saved, or any other string
SavedLanguages == {"", "python", "ruby"}

\* part_000:91-109 useState(...), the effects of the mount not yet run, and
\* nothing in flight
UIInit ==
    [mounted |-> FALSE, loading |-> FALSE, questions |-> NoList, error |-> "", selectedIndex |-> 0,
     code |-> EmptySource, activeTab |-> "testcases", activeCaseIndex |-> 0,
     language |-> "javascript", toast |-> "", headerCollapsed |-> FALSE,
     runLoading |-> FALSE, runResult |-> NoRunResult,
     kbRunLoading |-> FALSE, runs |-> <<>>, gens |-> 0, sent |-> 0]

\* Variant: the reset keeps the last run result
MutResetEffect(u) == [u EXCEPT !.activeCaseIndex = 0, !.activeTab = "testcases"]

\* part_000:211-215  the effect on [selectedIndex]
ResetEffect(u) ==
    [u EXCEPT !.activeCaseIndex = 0, !.runResult = NoRunResult, !.activeTab = "testcases"]

\* The render after a handler took the state from old to new, and its effects:
\* the starter sync (lines 203-208), the reset (211-215), and the keydown
\* listener (218-234), which is registered again, with the runCode of this
\* render, only when code, language, currentQuestion or questions changed.
Commit(old, new) ==
    LET q0 == currentQuestion(old)
        q1 == currentQuestion(new)
        a  == IF (q1 # q0 \/ new.language # old.language) /\ q1 # NoQuestion
              THEN [new EXCEPT !.code = StarterFor(new)] ELSE new
        b  == IF new.selectedIndex # old.selectedIndex THEN ResetEffect(a) ELSE a
    IN  IF b.code # old.code \/ b.language # old.language \/ q1 # q0
           \/ b.questions # old.questions
        THEN [b EXCEPT !.kbRunLoading = b.runLoading]
        ELSE b

\* part_000:275-285  handleGenerate up to the fetch
GenerateStart(u, blank) ==
    LET a == [u EXCEPT !.error = "", !.runResult = NoRunResult, !.activeTab = "testcases"]
    IN  IF blank THEN [a EXCEPT !.error = "Please enter a documentation URL."]
        ELSE [a EXCEPT !.loading = TRUE, !.gens = @ + 1]

\* part_000:296-304, 310-312  a 2xx response with the list qs
GenerateSucceeded(u, qs) ==
    [u EXCEPT !.questions = [ver |-> @.ver + 1, qs |-> qs], !.selectedIndex = 0,
              !.activeCaseIndex = 0, !.headerCollapsed = TRUE, !.toast = "Generated",
              !.loading = FALSE, !.gens = @ - 1]

\* Variant: a failed generation empties the exercise list
MutGenerateFailed(u, message) ==
    [u EXCEPT !.questions = [ver |-> @.ver, qs |-> <<>>], !.error = message,
              !.toast = "Generate failed", !.loading = FALSE, !.gens = @ - 1]

\* part_000:305-312  catch and finally
GenerateFailed(u, message) ==
    [u EXCEPT !.error = message, !.toast = "Generate failed", !.loading = FALSE,
              !.gens = @ - 1]

\* What err.message is for each way a generation request fails (lines 287-294):
\* a non-2xx response (with its error field), fetch rejecting, and res.json()
\* rejecting.
GenerateFailures ==
    { "Server error generating questions", "Failed to fetch", "Unexpected token < in JSON" }

\* part_000:315-334  runCode up to the fetch, as called from a render whose
\* runLoading was closureRunLoading
runCode(u, mode, closureRunLoading) ==
    IF currentQuestion(u) = NoQuestion \/ closureRunLoading THEN u
    ELSE [u EXCEPT !.runLoading = TRUE, !.runResult = NoRunResult, !.activeTab = "output",
                   !.runs = Append(@, [mode |-> mode, q |-> currentQuestion(u)]),
                   !.sent = @ + 1]

Without(seq, k) == [j \in 1..(Len(seq) - 1) |-> IF j < k THEN seq[j] ELSE seq[j + 1]]

\* part_000:339-351, 355-357  the response to run request k is a 2xx
RunSucceeded(u, k, allPassed, firstFail) ==
    [u EXCEPT !.runResult = RunResult("data", u.runs[k].q, allPassed),
              !.activeCaseIndex = IF ~allPassed /\ firstFail >= 0 THEN firstFail ELSE @,
              !.toast = "Passed",
              !.runLoading = FALSE,
              !.runs = Without(@, k)]

\* part_000:352-357  catch and finally
RunFailed(u, k) ==
    [u EXCEPT !.runResult = RunResult("error", u.runs[k].q, FALSE),
              !.toast = "Runner error", !.runLoading = FALSE, !.runs = Without(@, k)]

\* part_000:123-135  the effect of the mount that loads the preferences
LoadPrefs(u, savedLang, savedCollapsed) ==
    LET a == IF savedLang # "" THEN [u EXCEPT !.language = savedLang] ELSE u
        b == IF savedCollapsed = "true" THEN [a EXCEPT !.headerCollapsed = TRUE] ELSE a
    IN  [b EXCEPT !.mounted = TRUE]

\* The page is mounted: its effects run before any event is handled
UIMount(savedLang, savedCollapsed) ==
    /\ ~ui.mounted
    /\ ui' = Commit(ui, LoadPrefs(ui, savedLang, savedCollapsed))
    /\ UNCHANGED <<limVars, gwVars, norm, flight>>

UIStep(new) ==
    /\ ui.mounted
    /\ ui' = Commit(ui, new)
    /\ UNCHANGED <<limVars, gwVars, norm, flight>>

\* The form is submitted (line 433); its button is disabled while loading (444)
UISubmit(blank) ==
    /\ ~ui.loading
    /\ UIStep(GenerateStart(ui, blank))

UIGenerateOk(qs) ==
    /\ ui.gens > 0
    /\ ui.questions.ver < MaxLists
    /\ UIStep(GenerateSucceeded(ui, qs))

UIGenerateFails(message) ==
    /\ ui.gens > 0
    /\ UIStep(GenerateFailed(ui, message))

\* line 482: a question's button, shown while there is a current question
UISelect(idx) ==
    /\ currentQuestion(ui) # NoQuestion
    /\ idx < Len(ui.questions.qs)
    /\ UIStep([ui EXCEPT !.selectedIndex = idx])

\* line 499
UISetLanguage(lang) ==
    /\ currentQuestion(ui) # NoQuestion
    /\ UIStep([ui EXCEPT !.language = lang])

\* line 610: the user edits the source text; onChange is called with a text
\* other than the one in the editor (two typed texts are told apart)
UITypeCode ==
    /\ currentQuestion(ui) # NoQuestion
    /\ UIStep([ui EXCEPT !.code =
                  Source("typed", "", NoQuestion,
                         IF ui.code.kind = "typed" /\ ui.code.n = 1 THEN 2 ELSE 1)])

\* line 578: the Reset button (handleReset, lines 267-271)
UIReset ==
    /\ currentQuestion(ui) # NoQuestion
    /\ UIStep([ui EXCEPT !.code = StarterFor(ui)])

\* lines 654-655, 661-662: Run and Submit, disabled while runLoading
UIClickRun(mode) ==
    /\ currentQuestion(ui) # NoQuestion
    /\ ~ui.runLoading
    /\ ui.sent < MaxRuns
    /\ UIStep(runCode(ui, mode, ui.runLoading))

\* lines 219-229: modifier+Enter (with Shift: submit) on the window
UIShortcut(mode) ==
    /\ ui.sent < MaxRuns
    /\ UIStep(runCode(ui, mode, ui.kbRunLoading))

UIRunOk(k, allPassed, firstFail) ==
    /\ k \in DOMAIN ui.runs
    /\ UIStep(RunSucceeded(ui, k, allPassed, firstFail))

UIRunFails(k) ==
    /\ k \in DOMAIN ui.runs
    /\ UIStep(RunFailed(ui, k))

\* line 196: the toast's timer
UIToastExpires ==
    /\ ui.toast # ""
    /\ UIStep([ui EXCEPT !.toast = ""])

InitUI == InitLim /\ InitGw /\ ui = UIInit /\ norm = None /\ flight = None

NextUI ==
    \/ \E savedLang \in SavedLanguages, savedCollapsed \in {"", "true", "false"} :
          UIMount(savedLang, savedCollapsed)
    \/ \E blank \in BOOLEAN : UISubmit(blank)
    \/ \E qs \in GeneratedLists : UIGenerateOk(qs)
    \/ \E message \in GenerateFailures : UIGenerateFails(message)
    \/ \E idx \in {0, 1} : UISelect(idx)
    \/ \E lang \in Languages : UISetLanguage(lang)
    \/ UITypeCode
    \/ UIReset
    \/ \E mode \in {"run", "submit"} : UIClickRun(mode)
    \/ \E mode \in {"run", "submit"} : UIShortcut(mode)
    \/ \E k \in {1, 2, 3}, r \in {<<TRUE, -1>>, <<FALSE, 1>>} : UIRunOk(k, r[1], r[2])
    \/ \E k \in {1, 2, 3} : UIRunFails(k)
    \/ UIToastExpires

SpecUI == InitUI /\ [][NextUI]_vars

(***************************************************************************)
(* SpecRepair: the pure functions of the guard library and of the          *)
(* generation gateway, applied to values drawn from bounded sets.          *)
(*                                                                         *)
(* generate-questions/route.js:44-86 and 252-318: the repair of the        *)
(* questions the model returned.  A field of the model's JSON is held with *)
(* its type: "undefined" (the field is absent), "null", "string",          *)
(* "number", "object" (String() gives "[object Object]") or                *)
(* "unconvertible" (an object String() throws on, {"toString": 1}).        *)
(* A short string is held as itself (str), a test case's input and         *)
(* expected output as a text (text), whose characters JSON.parse reads.    *)
(***************************************************************************)
JStr(type, str) == [type |-> type, str |-> str]
JText(type, text) == [type |-> type, text |-> text]

Absent     == JStr("undefined", "")
AbsentText == JText("undefined", Str(<<>>))

ObjectObject ==
    Str(<<"[", "o", "b", "j", "e", "c", "t", " ", "O", "b", "j", "e", "c", "t", "]">>)

\* val === null || val === undefined
Nullish(v) == v.type \in {"undefined", "null"}

\* Boolean(v) is false: undefined, null, "" and 0
Falsy(v) ==
    \/ Nullish(v)
    \/ v.type = "string" /\ v.str = ""
    \/ v.type = "number" /\ v.str = "0"

Truthy(v) == ~Falsy(v)

\* String(v) throws a TypeError
StringThrows(v) == v.type = "unconvertible"

\* String(v), for a short string and for a text
StringOf(v) ==
    IF v.type = "object" THEN "[object Object]"
    ELSE IF v.type = "null" THEN "null"
    ELSE IF v.type = "undefined" THEN "undefined"
    ELSE v.str

TextOf(v) == IF v.type = "object" THEN ObjectObject ELSE v.text

\* lines 68-71, on a short string and on a text
coerceString(val, fallback) == IF Nullish(val) THEN fallback ELSE StringOf(val)

coerceText(val, fallback) == IF Nullish(val) THEN fallback ELSE TextOf(val)

\* line 74: String(val || "").toLowerCase().trim(), on the difficulties drawn
LowerTrimmed(val) ==
    IF Falsy(val) THEN ""
    ELSE IF StringOf(val) = " Advanced " THEN "advanced"
    ELSE StringOf(val)

\* lines 73-77
coerceDifficulty(val, fallback) ==
    IF LowerTrimmed(val) \in {"beginner", "intermediate", "advanced"}
    THEN LowerTrimmed(val)
    ELSE fallback

\* A starter code is held by its type and the markers it contains:
\* py for "def solve", js for "function solve" or "export function solve".
Starter(type, py, js) == [type |-> type, py |-> py, js |-> js]

NoStarter == Starter("undefined", FALSE, FALSE)

\* lines 17-42
starterTemplate(lang) == Starter("string", lang = "python", lang # "python")

\* lines 44-50; String(starterCode || "") of an absent starter is ""
starterLooksOk(starterCode, lang) ==
    IF starterCode.type # "string" THEN FALSE
    ELSE IF lang = "python" THEN starterCode.py
    ELSE starterCode.js

\* lines 55-59
FillerHints ==
    << "Start by carefully matching the input JSON shape to the variables you need.",
       "Write the rule as a small helper step (even mentally), then apply it to all required parts.",
       "Test your logic on the provided example by hand and confirm it matches the expected output." >>

\* line 53: Array.isArray(hints) ? hints.filter(Boolean) : []
HintsKept(hints) == IF hints.type = "array" THEN SelectSeq(hints.items, Truthy) ELSE <<>>

\* line 53: .map(String) throws on one of the hints kept
HintsThrow(hints) == \E k \in DOMAIN HintsKept(hints) : StringThrows(HintsKept(hints)[k])

\* lines 60-64: the while loop, from a list `trimmed` and the index i
RECURSIVE PadHints(_, _)
PadHints(trimmed, idx) ==
    IF Len(trimmed) < 3
    THEN PadHints(Append(trimmed, IF idx + 1 <= Len(FillerHints)
                                  THEN FillerHints[idx + 1]
                                  ELSE FillerHints[Len(FillerHints)]),
                  idx + 1)
    ELSE trimmed

\* lines 52-66
ensureExactlyThreeHints(hints) ==
    LET base    == [k \in DOMAIN HintsKept(hints) |-> StringOf(HintsKept(hints)[k])]
        trimmed == SubSeq(base, 1, Min(Len(base), 3))
    IN  PadHints(trimmed, 0)

\* A test case as the model gives it: an object with its four fields, or null.
GenCase(name, input, expectedOutput, explanation) ==
    [type |-> "object", name |-> name, input |-> input,
     expectedOutput |-> expectedOutput, explanation |-> explanation]

NullGenCase ==
    [type |-> "null", name |-> Absent, input |-> AbsentText,
     expectedOutput |-> AbsentText, explanation |-> Absent]

\* line 80: tc || {}
CaseOrEmpty(tc) == IF tc.type = "object" THEN tc ELSE [NullGenCase EXCEPT !.type = "object"]

\* lines 79-86: one of the four String() calls throws
sanitizeCaseThrows(tc) ==
    LET t == CaseOrEmpty(tc)
    IN  \/ StringThrows(t.name)
        \/ StringThrows(t.input)
        \/ StringThrows(t.expectedOutput)
        \/ StringThrows(t.explanation)

\* lines 79-86
sanitizeCase(tc, fallbackName) ==
    LET t == CaseOrEmpty(tc)
    IN  [name           |-> coerceString(t.name, fallbackName),
         input          |-> coerceText(t.input, NullText),
         expectedOutput |-> coerceText(t.expectedOutput, NullText),
         explanation    |-> coerceString(t.explanation, "")]

\* lines 279, 282, 291, 305: `Case ${i + 1}` and `Hidden ${i + 1}`; line 257
CaseLabels      == <<"Case 1", "Case 2", "Case 3">>
HiddenLabels    == <<"Hidden 1", "Hidden 2", "Hidden 3", "Hidden 4", "Hidden 5", "Hidden 6">>
ChallengeLabels == <<"Challenge 1", "Challenge 2", "Challenge 3", "Challenge 4", "Challenge 5">>

\* lines 278, 281: the cases kept by slice(0, cap)
CasesKept(list, cap) ==
    LET arr == IF list.type = "array" THEN list.items ELSE <<>>
    IN  SubSeq(arr, 1, Min(Len(arr), cap))

\* lines 287-299 and 301-313: the while loops
RECURSIVE PadCases(_, _, _, _)
PadCases(cases, least, labels, explanation) ==
    IF Len(cases) < least
    THEN PadCases(Append(cases,
                         sanitizeCase(GenCase(JStr("string", labels[Len(cases) + 1]),
                                              JText("string", NullText),
                                              JText("string", NullText),
                                              JStr("string", explanation)),
                                      labels[Len(cases) + 1])),
                  least, labels, explanation)
    ELSE cases

\* lines 274-313, for one of the two lists
RepairCases(list, cap, least, labels, explanation) ==
    PadCases([k \in DOMAIN CasesKept(list, cap) |-> sanitizeCase(CasesKept(list, cap)[k], labels[k])],
             least, labels, explanation)

CasesThrow(list, cap) ==
    \E k \in DOMAIN CasesKept(list, cap) : sanitizeCaseThrows(CasesKept(list, cap)[k])

\* An element of the model's `questions` array: an object with its fields,
\* null, an array, or a primitive the model put in the place of a question.
EmptyQuestion ==
    [type |-> "object", functionName |-> Absent, title |-> Absent, concept |-> Absent,
     question |-> Absent, instructions |-> Absent, difficulty |-> Absent,
     starterCode |-> NoStarter, hints |-> Undefined, testCases |-> Undefined,
     hiddenTestCases |-> Undefined]

\* line 253: q || {}; an array has none of the fields the handler reads
QuestionOrEmpty(q) == IF q.type = "object" THEN q ELSE EmptyQuestion

\* line 254: the module is strict code, where setting a property of a
\* primitive throws; lines 257-283: a String() call throws
QuestionThrows(q, lang) ==
    LET qq == QuestionOrEmpty(q)
    IN  \/ q.type = "primitive"
        \/ StringThrows(qq.title)
        \/ StringThrows(qq.concept)
        \/ StringThrows(qq.question)
        \/ StringThrows(qq.instructions)
        \/ StringThrows(qq.difficulty)
        \/ qq.starterCode.type = "unconvertible"
        \/ HintsThrow(qq.hints)
        \/ CasesThrow(qq.testCases, 3)
        \/ CasesThrow(qq.hiddenTestCases, 6)

\* lines 252-316: the callback of map, on the question of index idx (from 0)
RepairQuestion(q, idx, lang) ==
    LET qq == QuestionOrEmpty(q)
    IN  [shape           |-> IF q.type = "array" THEN "array" ELSE "object",
         functionName    |-> "solve",
         title           |-> coerceString(qq.title, ChallengeLabels[idx + 1]),
         concept         |-> coerceString(qq.concept,
                                "You will learn how to apply the documented concept."),
         question        |-> coerceString(qq.question, ""),
         instructions    |-> coerceString(qq.instructions, ""),
         difficulty      |-> coerceDifficulty(qq.difficulty, "beginner"),
         starterCode     |-> IF starterLooksOk(qq.starterCode, lang)
                             THEN qq.starterCode ELSE starterTemplate(lang),
         hints           |-> ensureExactlyThreeHints(qq.hints),
         testCases       |-> RepairCases(qq.testCases, 3, 2, CaseLabels, "Basic sanity check."),
         hiddenTestCases |-> RepairCases(qq.hiddenTestCases, 6, 3, HiddenLabels,
                                         "Hidden sanity check / edge coverage.")]

\* line 318: NextResponse.json(payload) writes the body with JSON.stringify,
\* which writes the indexed elements of an array and none of its properties.
Stringified(qq) ==
    IF qq.shape = "array"
    THEN [shape |-> "array", functionName |-> "", title |-> "", concept |-> "",
          question |-> "", instructions |-> "", difficulty |-> "",
          starterCode |-> NoStarter, hints |-> <<>>, testCases |-> <<>>,
          hiddenTestCases |-> <<>>]
    ELSE qq

\* The values drawn.
HintA == JStr("string", "Think about the loop bounds.")
HintB == JStr("string", "Use a dictionary.")
HintC == JStr("string", "Return the count.")
HintD == JStr("string", "Read the docs again.")

GoodCase  == GenCase(JStr("string", "basic"), JText("string", PairLoose),
                     JText("string", Four), JStr("string", "two numbers"))
BareCase  == GenCase(Absent, AbsentText, AbsentText, Absent)
WordCase  == GenCase(JStr("string", "word"), JText("string", NotJson),
                     JText("string", Four), Absent)
ObjCase   == GenCase(JStr("number", "7"), JText("object", Str(<<>>)),
                     JText("string", Five), JStr("null", ""))
ThrowCase == GenCase(Absent, JText("unconvertible", Str(<<>>)), AbsentText, Absent)

QFull ==
    [EmptyQuestion EXCEPT
        !.functionName = JStr("string", "main"),
        !.title = JStr("string", "Sum"),
        !.difficulty = JStr("string", " Advanced "),
        !.starterCode = Starter("string", TRUE, FALSE),
        !.hints = List(<<HintA, HintB, HintC, HintD>>),
        !.testCases = List(<<GoodCase, GoodCase, BareCase, ThrowCase>>),
        !.hiddenTestCases = List(Repeat(GoodCase, 6) \o <<ThrowCase>>)]

QOneHint ==
    [EmptyQuestion EXCEPT
        !.title = JStr("number", "3"),
        !.difficulty = JStr("string", "hard"),
        !.starterCode = Starter("string", FALSE, TRUE),
        !.hints = List(<<HintA>>),
        !.testCases = List(<<>>),
        !.hiddenTestCases = List(<<GoodCase, NullGenCase>>)]

QTwoHints ==
    [EmptyQuestion EXCEPT
        !.hints = List(<<HintB, JStr("number", "5")>>),
        !.testCases = List(<<GoodCase, BareCase>>),
        !.hiddenTestCases = NotArray]

QBlankHint ==
    [EmptyQuestion EXCEPT
        !.hints = List(<<JStr("string", ""), HintA, HintB, HintC>>),
        !.testCases = List(<<GoodCase, GoodCase>>),
        !.hiddenTestCases = List(Repeat(GoodCase, 3))]

QWordInput ==
    [EmptyQuestion EXCEPT
        !.hints = List(<<HintA, HintB, HintC>>),
        !.testCases = List(<<GoodCase, WordCase>>),
        !.hiddenTestCases = List(<<ObjCase, GoodCase, GoodCase>>)]

QBadHint ==
    [EmptyQuestion EXCEPT
        !.hints = List(<<HintA, HintB, HintC, JStr("unconvertible", "")>>)]

QNull      == [EmptyQuestion EXCEPT !.type = "null"]
QArray     == [EmptyQuestion EXCEPT !.type = "array"]
QPrimitive == [EmptyQuestion EXCEPT !.type = "primitive"]

ModelQuestions ==
    {QFull, QOneHint, QTwoHints, QBlankHint, QWordInput, QBadHint, QNull, QArray, QPrimitive}

MaxPayload == 2   \* questions in the arrays drawn for SpecRepair

RECURSIVE SeqsUpTo(_, _)
SeqsUpTo(S, n) ==
    IF n = 0 THEN {<<>>}
    ELSE SeqsUpTo(S, n - 1)
         \cup { Append(s, x) : s \in { t \in SeqsUpTo(S, n - 1) : Len(t) = n - 1 }, x \in S }

\* The arrays drawn: every short one, and one of more than five questions.
ModelPayloads ==
    SeqsUpTo(ModelQuestions, MaxPayload)
    \cup { Repeat(QOneHint, MaxQuestions) \o <<QPrimitive, QFull>> }

\* The docsUrl values drawn for validateDocsUrl alone: those of the request
\* bodies, and values that break more than one rule.
UrlInputs ==
    DocsUrls
    \cup { DocsUrl("number", Str(<<>>), FALSE, ""),
           DocsUrl("string", Text(<<"d", Filler>>, MaxUrlChars), FALSE, ""),
           DocsUrl("string", Text(<<"f", "t", "p", ":", "/", "/", Filler>>, MaxUrlChars), TRUE, "ftp:"),
           DocsUrl("string", UrlRun(MaxUrlChars), TRUE, "http:"),
           DocsUrl("string", Str(<<" ", "m", "a", "i", "l", "t", "o", ":", "a", "\n">>), TRUE, "mailto:") }

NoReturn == [ok |-> FALSE, error |-> "not returned", value |-> Str(<<>>)]

MaxOutLen == 4   \* characters in the outputs drawn for normalizeOutput

OutChars == {"0", "1", ".", "-", " ", "\"", "[", "]", ","}

\* The outputs drawn: every string of OutChars up to MaxOutLen characters,
\* the literals, and some longer JSON texts.
OutputsDrawn ==
    { Str(s) : s \in SeqsUpTo(OutChars, MaxOutLen) }
    \cup { Str(<<" ", " ", "t", "r", "u", "e", " ", " ">>), NullText,
           Str(<<"f", "a", "l", "s", "e">>), Str(<<"t", "r", "u", "e", "1">>),
           PairLoose, PaddedFour, NotJson,
           Str(<<"-", "0", "0", ".", "5", "0">>),
           Str(<<"{", "\"", "1", "\"", ":", " ", "1", ".", "0", "}">>),
           Str(<<"{", "\"", "b", "\"", ":", "1", ".", "0", ",", " ", "\"", "0", "\"", ":", "[", " ", "]", ",",
                 "\"", "b", "\"", ":", "n", "u", "l", "l", "}", "\n">>),
           Str(<<"\"", "[", "1", ",", " ", "2", "]", "\"">>),
           Str(<<"\"", " ", "0", "1", " ", "\"">>) }

NotNormalized == Str(<<"not returned">>)

OutputGiven(s) == [fn |-> "normalizeOutput", arg |-> s, once |-> NotNormalized,
                   twice |-> NotNormalized]

UrlGiven(docsUrl) == [fn |-> "validateDocsUrl", arg |-> docsUrl, ret |-> NoReturn]

PayloadGiven(questions, lang) ==
    [fn |-> "POST", questions |-> questions, lang |-> lang, out |-> <<>>,
     status |-> 0, error |-> "", body |-> <<>>]

InitRepair ==
    /\ InitLim
    /\ InitGw
    /\ ui = None
    /\ flight = None
    /\ norm \in { OutputGiven(s) : s \in OutputsDrawn }
                \cup { UrlGiven(u) : u \in UrlInputs }
                \cup { PayloadGiven(p, l) : p \in ModelPayloads, l \in {"python", "javascript"} }

\* limiter.js:40-58: the call returns
ValidateUrl ==
    /\ norm.fn = "validateDocsUrl"
    /\ norm.ret = NoReturn
    /\ norm' = [norm EXCEPT !.ret = validateDocsUrl(norm.arg)]
    /\ UNCHANGED <<limVars, gwVars, ui, flight>>

\* lines 252-316: one call of map's callback; lines 319-325 when it throws
RepairNext ==
    /\ norm.fn = "POST"
    /\ norm.status = 0
    /\ Len(norm.out) < Min(Len(norm.questions), MaxQuestions)
    /\ LET idx == Len(norm.out)
           q   == norm.questions[idx + 1]
       IN  IF QuestionThrows(q, norm.lang)
           THEN norm' = [norm EXCEPT !.status = 500,
                                     !.error = "Server error generating questions"]
           ELSE norm' = [norm EXCEPT !.out = Append(@, RepairQuestion(q, idx, norm.lang))]
    /\ UNCHANGED <<limVars, gwVars, ui, flight>>

\* line 318
RepairRespond ==
    /\ norm.fn = "POST"
    /\ norm.status = 0
    /\ Len(norm.out) = Min(Len(norm.questions), MaxQuestions)
    /\ norm' = [norm EXCEPT !.status = 200,
                            !.body = [k \in DOMAIN norm.out |-> Stringified(norm.out[k])]]
    /\ UNCHANGED <<limVars, gwVars, ui, flight>>

\* run/route.js:30-54: normalizeOutput(s)
NormalizeOnce ==
    /\ norm.fn = "normalizeOutput"
    /\ norm.once = NotNormalized
    /\ norm' = [norm EXCEPT !.once = normalizeOutput(norm.arg)]
    /\ UNCHANGED <<limVars, gwVars, ui, flight>>

\* normalizeOutput applied to what it returned
NormalizeAgain ==
    /\ norm.fn = "normalizeOutput"
    /\ norm.once # NotNormalized
    /\ norm.twice = NotNormalized
    /\ norm' = [norm EXCEPT !.twice = normalizeOutput(norm.once)]
    /\ UNCHANGED <<limVars, gwVars, ui, flight>>

NextRepair ==
    \/ NormalizeOnce
    \/ NormalizeAgain
    \/ ValidateUrl
    \/ RepairNext
    \/ RepairRespond

SpecRepair == InitRepair /\ [][NextRepair]_vars

(***************************************************************************)
(* SpecOverlap: requests that one server process handles at the same time. *)
(* A handler runs without interruption from one await to the next; its     *)
(* first stretch (run/route.js:159-171, generate-questions/route.js:89-111)*)
(* holds the whole call of rateLimit, which has no await (limiter.js:9-29),*)
(* and ends at `await req.json()`.  Requests interleave at the awaits.     *)
(***************************************************************************)
MaxInFlight == 2   \* requests handled at the same time in SpecOverlap

Slots == 1..MaxInFlight

IdleSlot == [pc |-> "idle", key |-> NoKey, at |-> 0, before |-> NoBucket, after |-> NoBucket,
             n |-> 0]

\* Variant: rateLimit reads the bucket, yields, and writes it back later, so a
\* call that starts while another request is before its first await starts
\* from the bucket that request had read.
MutOverlapArrive(p, gw, ip) ==
    LET key   == KeyOf(gw, ip)
        other == { q \in Slots : flight[q].pc = "body" /\ flight[q].key = key }
        bs    == IF other = {} THEN buckets
                 ELSE [buckets EXCEPT ![key] = flight[CHOOSE q \in other : TRUE].before]
        r     == rateLimit(bs, key, LimitOf(gw), WindowMs, now)
    IN  /\ flight[p].pc = "idle"
        /\ buckets' = r.buckets
        /\ win' = [win EXCEPT ![key] = WinAfter(@, now, r.allowed, LimitOf(gw))]
        /\ rl' = [NoRl EXCEPT !.key = key, !.gw = gw, !.at = now, !.allowed = r.allowed,
                              !.remaining = r.remaining, !.resetAt = r.resetAt,
                              !.prev = buckets[key]]
        /\ flight' = [flight EXCEPT ![p] =
                         [pc |-> IF r.allowed THEN "body" ELSE "done", key |-> key, at |-> now,
                          before |-> bs[key], after |-> r.buckets[key], n |-> win'[key].n]]
        /\ UNCHANGED <<now, retry, ticks>>
        /\ UNCHANGED <<gwVars, ui, norm>>

\* A request arrives: the handler's first stretch, up to its first await (or
\* to the 429 it returns).
OverlapArrive(p, gw, ip) ==
    LET key == KeyOf(gw, ip)
    IN  /\ flight[p].pc = "idle"
        /\ Enter(gw, ip, 0, FALSE)
        /\ flight' = [flight EXCEPT ![p] =
                         [pc |-> IF rl'.allowed THEN "body" ELSE "done", key |-> key, at |-> now,
                          before |-> buckets[key], after |-> buckets'[key], n |-> win'[key].n]]
        /\ UNCHANGED ticks
        /\ UNCHANGED <<gwVars, ui, norm>>

\* The rest of the handler, from `await req.json()` on: it does not touch the
\* buckets.
OverlapFinish(p) ==
    /\ flight[p].pc = "body"
    /\ flight' = [flight EXCEPT ![p].pc = "done"]
    /\ UNCHANGED <<limVars, gwVars, ui, norm>>

OverlapTick(dt) ==
    /\ ticks < MaxTicks
    /\ ticks' = ticks + 1
    /\ now' = now + dt
    /\ UNCHANGED <<buckets, rl, win, retry>>
    /\ UNCHANGED <<gwVars, ui, norm, flight>>

InitOverlap ==
    /\ \/ buckets = [k \in Keys |-> NoBucket] /\ win = [k \in Keys |-> NoWin]
       \/ buckets = [k \in Keys |-> FullBucket(k)] /\ win = [k \in Keys |-> FullWin(k)]
    /\ now = 0
    /\ rl = NoRl
    /\ retry = NoRetry
    /\ ticks = 0
    /\ InitGw
    /\ ui = None
    /\ norm = None
    /\ flight = [p \in Slots |-> IdleSlot]

NextOverlap ==
    \/ \E p \in Slots, gw \in Gateways, ip \in Ips : OverlapArrive(p, gw, ip)
    \/ \E p \in Slots : OverlapFinish(p)
    \/ \E dt \in TickSteps : OverlapTick(dt)

SpecOverlap == InitOverlap /\ [][NextOverlap]_vars

(***************************************************************************)
(* The properties.                                                         *)
(***************************************************************************)
Answered(gw) == pc = "done" /\ req.gw = gw

\* The lists of the body answered, as the properties read them.
VisibleGiven == IF req.body.testCases.type = "array" THEN req.body.testCases.items ELSE <<>>
HiddenGiven  == IF req.body.hiddenTestCases.type = "array" THEN req.body.hiddenTestCases.items ELSE <<>>
SelectedCount ==
    IF req.body.mode = "submit" THEN Len(VisibleGiven) + Len(HiddenGiven) ELSE Len(VisibleGiven)

\* The body's code is one the validation lets through.
CodeAccepted ==
    /\ req.body.code.type = "string"
    /\ req.body.code.len >= 1
    /\ req.body.code.len <= MAX_CODE_CHARS

\* The sandbox calls made for case k of the request.
CallsFor(k) == { j \in DOMAIN calls : calls[j].case = k }

\* C1: for a fresh key with limit L, the first L calls within a window are
\* allowed and the (L+1)-th call within the same window is refused; the first
\* call after the bucket's resetAt has passed is allowed and leaves count 1.
C1_FixedWindow ==
    rl.key # NoKey =>
        LET L == LimitOf(rl.gw)
            w == win[rl.key]
        IN  /\ w.n <= L => rl.allowed
            /\ w.n = L + 1 => ~rl.allowed
            /\ (rl.prev.count # -1 /\ rl.at > rl.prev.resetAt)
                    => (rl.allowed /\ buckets[rl.key].count = 1)

\* A refused key's window has passed and its next call is allowed, count 1.
C1_Witness ==
    /\ rl.key # NoKey
    /\ rl.prev.count = LimitOf(rl.gw) + 1
    /\ rl.at > rl.prev.resetAt
    /\ rl.allowed
    /\ buckets[rl.key].count = 1

\* C11: the limiter counts every call: after k calls for a key inside one
\* window the bucket's count is k, also when k exceeds the limit; each call
\* returns allowed = (count <= limit) and remaining = max(0, limit - count),
\* and remaining is never negative.
C11_CountsEveryCall ==
    /\ \A key \in Keys : buckets[key] # NoBucket => buckets[key].count = win[key].n
    /\ rl.key # NoKey =>
          LET L     == LimitOf(rl.gw)
              count == buckets[rl.key].count
          IN  /\ rl.allowed <=> (count <= L)
              /\ rl.remaining = (IF L - count > 0 THEN L - count ELSE 0)
              /\ rl.remaining >= 0

\* A call past the limit that was counted: the window holds more than L + 1.
C11_Witness ==
    /\ rl.key # NoKey
    /\ ~rl.allowed
    /\ rl.prev.count = LimitOf(rl.gw) + 1
    /\ buckets[rl.key].count = LimitOf(rl.gw) + 2
    /\ win[rl.key].n = LimitOf(rl.gw) + 2
    /\ rl.remaining = 0

\* C12: L calls for a key before the window boundary and L more after it are
\* 2L allowed calls in total: no call of the two adjacent windows is refused
\* (stated at every call of the second group: after L calls in the old window
\* and n <= L in the new one, L + n calls were allowed).
C12_BoundaryBurst ==
    \A key \in Keys :
        (win[key].prevFull /\ win[key].n <= LimitOf(key[1]))
            => win[key].prevOk + win[key].ok = LimitOf(key[1]) + win[key].n

\* L calls up to the old window's boundary, and L calls in the millisecond
\* after it.
C12_Witness ==
    \E key \in Keys :
        /\ win[key].prevFull
        /\ win[key].n = LimitOf(key[1])
        /\ win[key].prevOk + win[key].ok = 2 * LimitOf(key[1])
        /\ win[key].adjacent
        /\ now = win[key].first

\* C13: the page never has two run/submit requests in flight at the same
\* time: a run trigger (button or keyboard shortcut) that arrives while a run
\* is in flight, or while no exercise is selected, sends no request.
C13_OneRunInFlight ==
    Len(ui.runs) <= 1

\* What a generation's failure may change: the error message, the toast, the
\* loading flag, the run result and the active tab (and the request no longer
\* in flight).
OutsideFailureFrame(u) ==
    [u EXCEPT !.error = "", !.toast = "", !.loading = FALSE, !.runResult = NoRunResult,
              !.activeTab = "", !.gens = 0]

\* C14: when a generation request fails (non-2xx, network error, unparsable
\* body) the exercise list, the selected index and the editor's source text
\* are what they were before the form was submitted: neither the submission
\* nor the failure changes anything but the error message, the toast, the
\* loading flag, the run result and the active tab.
C14_FailureFrame ==
    [][ (\/ ui.gens = 0 /\ ui'.gens = 1
         \/ ui.gens = 1 /\ ui'.gens = 0 /\ ui'.error # "")
            => /\ ui'.questions = ui.questions
               /\ ui'.selectedIndex = ui.selectedIndex
               /\ ui'.code = ui.code
               /\ OutsideFailureFrame(ui') = OutsideFailureFrame(ui) ]_vars

\* A generation failed while the second exercise of a list was selected and
\* the user's own text was in the editor: all three are still there.
C14_Witness ==
    /\ ui.error \in GenerateFailures
    /\ ui.toast = "Generate failed"
    /\ ~ui.loading
    /\ ui.gens = 0
    /\ Len(ui.questions.qs) = 2
    /\ ui.selectedIndex = 1
    /\ ui.code.kind = "typed"

\* C20: switching the selected exercise resets the active test-case index to
\* 0, clears the last run result and selects the testcases tab.
C20_SwitchResets ==
    [][ ui'.selectedIndex # ui.selectedIndex
            => /\ ui'.activeCaseIndex = 0
               /\ ui'.runResult = NoRunResult
               /\ ui'.activeTab = "testcases" ]_vars

\* The second exercise is selected after a run of the list had completed, and
\* no form submission since the list arrived: the switch cleared the result.
C20_Witness ==
    /\ ui.questions.ver = 1
    /\ ~ui.loading
    /\ ui.error = ""
    /\ ui.selectedIndex = 1
    /\ ui.sent >= 1
    /\ ui.runs = <<>>
    /\ ui.runResult = NoRunResult
    /\ ui.activeCaseIndex = 0
    /\ ui.activeTab = "testcases"

\* C2: no request answered with HTTP 400 or HTTP 429 has caused an outbound
\* call, to the sandbox (execution gateway) or to the model (generation
\* gateway).
C2_NoOutboundCall ==
    resp.status \in {400, 429} => calls = <<>>

\* The generation gateway has answered 400 to an invalid docsUrl.
C2_Witness ==
    /\ Answered("gen")
    /\ req.parsed
    /\ resp.status = 400
    /\ resp.error = "docsUrl must start with http:// or https://"

\* C3: a client refused with 429 that waits the Retry-After seconds (or more)
\* and then retries once is allowed.
C3_RetryAllowed ==
    rl.isRetry => rl.allowed

\* C4: with mode "run" exactly the visible cases are selected and no result is
\* hidden; with mode "submit" the selected list is the visible cases followed
\* by the hidden cases, and result i (from 0) is hidden iff i is at least the
\* number of visible cases.
C4_ModeGating ==
    (Answered("run") /\ resp.status = 200) =>
        /\ req.body.mode \in {"run", "undefined"} =>
              /\ casesToRun = VisibleGiven
              /\ \A k \in DOMAIN resp.results : ~resp.results[k].hidden
        /\ req.body.mode = "submit" =>
              /\ Len(casesToRun) = Len(VisibleGiven) + Len(HiddenGiven)
              /\ \A k \in DOMAIN casesToRun :
                    casesToRun[k] = IF k <= Len(VisibleGiven) THEN VisibleGiven[k]
                                    ELSE HiddenGiven[k - Len(VisibleGiven)]
              /\ \A k \in DOMAIN resp.results :
                    resp.results[k].hidden <=> (k - 1 >= Len(VisibleGiven))

\* A submit answered with both visible and hidden results.
C4_Witness ==
    /\ Answered("run")
    /\ resp.status = 200
    /\ req.body.mode = "submit"
    /\ \E k \in DOMAIN resp.results : resp.results[k].hidden
    /\ \E k \in DOMAIN resp.results : ~resp.results[k].hidden

\* C5: in a 200 response a result is passed iff a sandbox call for its case
\* returned, its exit code is 0 and the normalized captured stdout equals the
\* normalized expected output; a case with a non-zero exit code, an oversized
\* or non-JSON input or a failed sandbox call is never passed.
C5_PassedIff ==
    (Answered("run") /\ resp.status = 200) =>
        \A k \in DOMAIN resp.results :
            LET r  == resp.results[k]
                tc == IF casesToRun[k].obj THEN casesToRun[k] ELSE NullCase
                input == IF tc.kind = "absent" THEN NullText ELSE tc.input
            IN  /\ r.passed <=>
                      /\ \E j \in CallsFor(k) : calls[j].answer.kind = "ok"
                      /\ r.exitCode = 0
                      /\ normalizeOutput(r.actualOutput) = normalizeOutput(r.expectedOutput)
                /\ \/ StrLen(input) > MAX_INPUT_CHARS
                   \/ ~JsonParse(input.s).ok
                   \/ \E j \in CallsFor(k) : calls[j].answer.kind # "ok"
                   \/ \E j \in CallsFor(k) :
                         calls[j].answer.run.code.has /\ calls[j].answer.run.code.val # 0
                   => ~r.passed

\* A 200 response with a case passed through normalization and a case that
\* printed the expected output with exit code 1.
C5_Witness ==
    /\ Answered("run")
    /\ resp.status = 200
    /\ \E k \in DOMAIN resp.results :
          resp.results[k].passed /\ resp.results[k].actualOutput # resp.results[k].expectedOutput
    /\ \E k \in DOMAIN resp.results :
          /\ ~resp.results[k].passed
          /\ resp.results[k].exitCode = 1
          /\ resp.results[k].actualOutput = resp.results[k].expectedOutput
          /\ \E j \in CallsFor(k) : calls[j].answer.kind = "ok"

\* C6: a request with accepted code and n >= 1 selected cases is answered 200 with exactly the
\* first min(n, 12) cases processed in order: results[i] describes selected
\* case i, total = min(n, 12), and no sandbox call is made for a later case.
C6_CaseCap ==
    (Answered("run") /\ req.parsed /\ CodeAccepted /\ SelectedCount >= 1) =>
        LET cap == IF SelectedCount < MAX_CASES_RUN THEN SelectedCount ELSE MAX_CASES_RUN
        IN  /\ resp.status = 200
            /\ resp.total = cap
            /\ Len(resp.results) = cap
            /\ \A k \in DOMAIN resp.results :
                  LET tc == IF casesToRun[k].obj THEN casesToRun[k] ELSE NullCase
                  IN  /\ resp.results[k].name = NameOf(tc, k)
                      /\ resp.results[k].expectedOutput = ExpectedOf(tc)
            /\ \A j \in DOMAIN calls : calls[j].case <= cap

\* More cases selected than the cap, and a 200 with twelve results.
C6_Capped ==
    /\ Answered("run")
    /\ resp.status = 200
    /\ SelectedCount > MAX_CASES_RUN
    /\ resp.total = MAX_CASES_RUN

\* C7: a case whose input is over 4,000 characters is recorded as failed with
\* "Input too large.", a case whose input is not JSON with "Testcase input is
\* not valid JSON."; no sandbox call is made for it, and every later case up
\* to the cap is still processed.
C7_InputIsolation ==
    (Answered("run") /\ req.parsed /\ casesToRun # <<>>) =>
        \A k \in 1..CasesCap(casesToRun) :
            LET tc    == IF casesToRun[k].obj THEN casesToRun[k] ELSE NullCase
                input == IF tc.kind = "absent" THEN NullText ELSE tc.input
                large == StrLen(input) > MAX_INPUT_CHARS
            IN  (tc.kind # "unconvertible" /\ (large \/ ~JsonParse(input.s).ok)) =>
                    /\ resp.status = 200
                    /\ Len(resp.results) = CasesCap(casesToRun)
                    /\ ~resp.results[k].passed
                    /\ resp.results[k].stderr = IF large THEN "Input too large."
                                                ELSE "Testcase input is not valid JSON."
                    /\ CallsFor(k) = {}

\* A 200 whose results hold both input failures and a later case that passed.
C7_Isolated ==
    /\ Answered("run")
    /\ resp.status = 200
    /\ \E k, l, m \in DOMAIN resp.results :
          /\ k < m /\ l < m
          /\ resp.results[k].stderr = "Input too large."
          /\ resp.results[l].stderr = "Testcase input is not valid JSON."
          /\ resp.results[m].passed

\* C8: whatever the sandbox does on a call (non-2xx, timeout, unparsable body,
\* run fields absent or of an unexpected shape), the request ends with 200, a
\* failed result for that case, and the remaining cases attempted.
C8_NoSandboxAbort ==
    (Answered("run") /\ calls # <<>>) =>
        /\ resp.status = 200
        /\ Len(resp.results) = CasesCap(casesToRun)
        /\ \A j \in DOMAIN calls :
              (\/ calls[j].answer.kind # "ok"
               \/ ~calls[j].answer.run.has
               \/ calls[j].answer.run.streams # "string"
               \/ ~calls[j].answer.run.stdout.has)
                  => ~resp.results[calls[j].case].passed

\* The sandbox calls that threw were each recorded as a failed case of a 200.
C8_Recorded ==
    /\ Answered("run")
    /\ resp.status = 200
    /\ \E j \in DOMAIN calls :
          /\ calls[j].answer.kind = "abort"
          /\ calls[j].case < Len(resp.results)
          /\ resp.results[calls[j].case].exitCode = 1
          /\ resp.results[calls[j].case + 1].passed

\* C9: in every 200 response of the execution gateway total is the number of
\* results and at least 1, passedCount is the number of passed results (so
\* 0 <= passedCount <= total <= 12), and allPassed iff passedCount = total.
C9_Totals ==
    (req.gw = "run" /\ resp.status = 200) =>
        /\ resp.total = Len(resp.results)
        /\ resp.total >= 1
        /\ resp.passedCount = Cardinality({ k \in DOMAIN resp.results : resp.results[k].passed })
        /\ 0 <= resp.passedCount
        /\ resp.passedCount <= resp.total
        /\ resp.total <= MAX_CASES_RUN
        /\ resp.allPassed <=> (resp.passedCount = resp.total)

\* Twelve results, some passed and some not.
C9_Witness ==
    /\ Answered("run")
    /\ resp.status = 200
    /\ resp.total = MAX_CASES_RUN
    /\ resp.passedCount > 0
    /\ resp.passedCount < resp.total
    /\ ~resp.allPassed

\* C10: a request past the rate limit whose body was read gets 400 with the
\* first applicable error, in the order "code is required" (code missing,
\* empty or not a string), "Code is too long" (more than 40,000 characters;
\* exactly 40,000 is accepted), "testCases are required" (zero cases selected
\* for the mode); the 400 carries no results.
C10_ValidationOrder ==
    (Answered("run") /\ req.parsed) =>
        LET code == req.body.code
        IN  /\ IF code.type # "string" \/ code.len = 0
               THEN resp.status = 400 /\ resp.error = "code is required"
               ELSE IF code.len > MAX_CODE_CHARS
               THEN resp.status = 400 /\ resp.error = "Code is too long"
               ELSE IF SelectedCount = 0
               THEN resp.status = 400 /\ resp.error = "testCases are required"
               ELSE resp.status # 400
            /\ resp.status = 400 => (resp.results = <<>> /\ results = <<>>)

\* A code over the limit with no case selected: the code's error comes first.
C10_Witness ==
    /\ Answered("run")
    /\ req.parsed
    /\ req.body.code.len = MAX_CODE_CHARS + 1
    /\ SelectedCount = 0
    /\ resp.status = 400
    /\ resp.error = "Code is too long"

\* The request in flight or answered passed the rate limit and the validation
\* of its docsUrl.
PassedValidation ==
    /\ req.gw = "gen"
    /\ req.parsed
    /\ req.body.isObject
    /\ validateDocsUrl(req.body.docsUrl).ok

ModelCalls == { j \in DOMAIN calls : calls[j].to = "model" }

FixedMessages ==
    { "No content returned from model", "Model returned invalid JSON",
      "Model response missing 'questions' array", "Server error generating questions" }

\* C18: a generation request that passes rate limiting and docsUrl validation
\* makes exactly one model call, and is answered either with 200 and the
\* questions, or with 500, one of the four fixed messages and no questions.
C18_AllOrNothing ==
    PassedValidation =>
        /\ Cardinality(ModelCalls) = 1
        /\ Len(calls) = 1
        /\ pc = "done" =>
              \/ resp.status = 200 /\ resp.error = "" /\ resp.questions <= MaxQuestions
              \/ resp.status = 500 /\ resp.error \in FixedMessages /\ resp.questions = 0

\* The repair threw after the one model call: 500 and no questions.
C18_Witness ==
    /\ PassedValidation
    /\ pc = "done"
    /\ Cardinality(ModelCalls) = 1
    /\ resp.status = 500
    /\ resp.error = "Server error generating questions"
    /\ resp.questions = 0

\* The hints the model supplied for a question.
HintsGiven(q) == IF q.type = "object" /\ q.hints.type = "array" THEN q.hints.items ELSE <<>>

Repaired == norm.fn = "POST" /\ norm.status = 200

\* C15: every question of a 200 response has exactly 3 hints; when the model
\* supplied k < 3 hints the first k are the model's in order and the other
\* 3 - k are the filler hints from the start of the filler sequence; when it
\* supplied more than 3, the output is its first 3.
C15_ThreeHints ==
    Repaired =>
        \A k \in DOMAIN norm.body :
            LET given == HintsGiven(norm.questions[k])
                n     == Len(given)
                hints == norm.body[k].hints
            IN  /\ Len(hints) = 3
                /\ n < 3 => \A j \in 1..3 :
                      hints[j] = IF j <= n THEN StringOf(given[j]) ELSE FillerHints[j - n]
                /\ n > 3 => \A j \in 1..3 : hints[j] = StringOf(given[j])

\* One hint from the model: it comes first, then the first two filler hints.
C15_OneHint ==
    /\ Repaired
    /\ \E k \in DOMAIN norm.body :
          /\ Len(HintsGiven(norm.questions[k])) = 1
          /\ norm.body[k].hints = <<HintA.str, FillerHints[1], FillerHints[2]>>

CaseFieldNames == {"name", "input", "expectedOutput", "explanation"}

\* C16: a 200 response has at most 5 questions; every question has
\* functionName "solve", 2 to 3 visible and 3 to 6 hidden test cases, each an
\* object with exactly the four fields name, input, expectedOutput and
\* explanation, whatever the model returned.
C16_QuestionShape ==
    Repaired =>
        /\ Len(norm.body) <= MaxQuestions
        /\ \A k \in DOMAIN norm.body :
              LET q == norm.body[k]
              IN  /\ q.functionName = "solve"
                  /\ Len(q.testCases) \in 2..3
                  /\ Len(q.hiddenTestCases) \in 3..6
                  /\ \A c \in DOMAIN q.testCases : DOMAIN q.testCases[c] = CaseFieldNames
                  /\ \A c \in DOMAIN q.hiddenTestCases :
                        DOMAIN q.hiddenTestCases[c] = CaseFieldNames

\* Seven questions from the model, five answered; an object question whose
\* lists were too long and one whose lists were missing are both repaired.
C16_Capped ==
    /\ Repaired
    /\ Len(norm.questions) = MaxQuestions + 2
    /\ Len(norm.body) = MaxQuestions
    /\ \A k \in DOMAIN norm.body :
          /\ norm.body[k].functionName = "solve"
          /\ Len(norm.body[k].testCases) = 2
          /\ Len(norm.body[k].hiddenTestCases) = 3

\* C17: every test case, visible or hidden, of every question of a 200
\* response has an input that parses as JSON.
C17_InputsAreJson ==
    Repaired =>
        \A k \in DOMAIN norm.body :
            LET q == norm.body[k]
            IN  /\ \A c \in DOMAIN q.testCases : JsonParse(q.testCases[c].input.s).ok
                /\ \A c \in DOMAIN q.hiddenTestCases : JsonParse(q.hiddenTestCases[c].input.s).ok

\* A case without input gets the input "null", which is JSON.
C17_Defaulted ==
    /\ Repaired
    /\ \E k \in DOMAIN norm.body :
          /\ norm.questions[k].type = "object"
          /\ norm.questions[k].testCases.type = "array"
          /\ \E c \in DOMAIN norm.questions[k].testCases.items :
                /\ c <= 3
                /\ norm.questions[k].testCases.items[c] = BareCase
                /\ norm.body[k].testCases[c].input = NullText

Validated == norm.fn = "validateDocsUrl" /\ norm.ret # NoReturn

\* C19: validateDocsUrl checks its rules in a fixed order and reports the
\* first failure: not a string, empty after trimming, trimmed length over
\* 600, not parseable as a URL, scheme other than http: or https:; otherwise
\* it returns ok with the trimmed string as value.
C19_RuleOrder ==
    Validated =>
        LET u == norm.arg
            t == Trim(u.text)
            r == norm.ret
        IN  IF u.type # "string"
            THEN ~r.ok /\ r.error = "docsUrl must be a string"
            ELSE IF StrLen(t) = 0
            THEN ~r.ok /\ r.error = "docsUrl is required"
            ELSE IF StrLen(t) > 600
            THEN ~r.ok /\ r.error = "docsUrl is too long"
            ELSE IF ~u.parses
            THEN ~r.ok /\ r.error = "docsUrl must be a valid URL"
            ELSE IF u.protocol # "http:" /\ u.protocol # "https:"
            THEN ~r.ok /\ r.error = "docsUrl must start with http:// or https://"
            ELSE /\ r.ok
                 /\ r.error = ""
                 /\ r.value = t
                 /\ r.value.s[1] \notin WhiteSpace
                 /\ r.value.s[Len(r.value.s)] \notin WhiteSpace

\* A string that is too long and does not parse either: the length is reported.
C19_Witness ==
    /\ Validated
    /\ norm.arg.type = "string"
    /\ StrLen(Trim(norm.arg.text)) > 600
    /\ ~norm.arg.parses
    /\ norm.ret.error = "docsUrl is too long"

\* C29: rejected calls never extend a window: no call made at or before a
\* bucket's resetAt changes that resetAt, and a call made later than windowMs
\* after the first call of its key's window is allowed, however many calls
\* were rejected in between.
C29_NoExtension ==
    [][ /\ \A key \in Keys :
              (buckets[key] # NoBucket /\ now <= buckets[key].resetAt) =>
                  buckets'[key].resetAt = buckets[key].resetAt
        /\ (rl' # rl /\ win[rl'.key].first # -1
                     /\ rl'.at > win[rl'.key].first + WindowMs) => rl'.allowed ]_vars

\* A call was rejected in a window, and the first call after the window's end
\* is allowed.
C29_Witness ==
    /\ rl.key # NoKey
    /\ rl.prev # NoBucket
    /\ rl.prev.count > LimitOf(rl.gw)
    /\ rl.at > rl.prev.resetAt
    /\ rl.allowed
    /\ buckets[rl.key].resetAt = rl.at + WindowMs

\* Two requests for one key are before their first await at the same time,
\* their calls of rateLimit in one window.
Overlapping(p, q) ==
    /\ p # q
    /\ flight[p].pc = "body"
    /\ flight[q].pc = "body"
    /\ flight[p].key = flight[q].key
    /\ flight[p].after.resetAt = flight[q].after.resetAt

\* C28, as stated: two requests for one key that are handled at the same time
\* lose an increment, the stored count after the n calls of the window being
\* less than n.
C28_LostIncrement ==
    \A p \in Slots, q \in Slots :
        Overlapping(p, q) => buckets[flight[p].key].count < win[flight[p].key].n

\* C28, amended: no interleaving of the requests a process handles loses an
\* increment: each call of rateLimit starts from the bucket the call before it
\* left, and after the n calls of a window the stored count is n.
C28_NoLostIncrement ==
    /\ \A key \in Keys : buckets[key] # NoBucket => buckets[key].count = win[key].n
    /\ \A p \in Slots : flight[p].pc # "idle" =>
          /\ flight[p].after.count = flight[p].n
          /\ flight[p].before # NoBucket =>
                \/ flight[p].after.count = flight[p].before.count + 1
                \/ flight[p].at > flight[p].before.resetAt /\ flight[p].after.count = 1

\* Two requests for a fresh key at the same time: the count is 2.
C28_Witness ==
    \E p \in Slots, q \in Slots :
        /\ Overlapping(p, q)
        /\ flight[p].before = NoBucket
        /\ flight[q].before = flight[p].after
        /\ buckets[flight[p].key].count = 2
        /\ win[flight[p].key].n = 2

\* The language field is none of "javascript", "typescript" and "python" in
\* any case of letters, or the body has none.
Unrecognized(l) ==
    \/ l \in {"undefined", NotAString}
    \/ ToLowerCase(l) \notin {"javascript", "typescript", "python"}

\* The cases run and the sandbox's answers give no other cause of failure.
NoOtherFailure ==
    /\ \A k \in 1..CasesCap(casesToRun) : ~ConversionThrows(CaseAt(casesToRun, k))
    /\ \A j \in DOMAIN calls : ~StreamThrows(calls[j].answer.run)

\* C23: a request whose language field is unrecognized, or absent, is
\* processed as javascript by both gateways and is not rejected or failed
\* because of it: the execution gateway calls the sandbox with javascript and
\* answers 200, the generation gateway calls the model with javascript.
C23_DefaultsToJavascript ==
    /\ (req.gw = "run" /\ req.parsed /\ Unrecognized(req.body.language)
            /\ CodeAccepted /\ SelectedCount > 0) =>
          /\ \A j \in DOMAIN calls :
                calls[j].language = "javascript" /\ calls[j].harness = "jsHarness"
          /\ (pc = "done" /\ NoOtherFailure) => resp.status = 200
    /\ (PassedValidation /\ Unrecognized(req.body.language)) =>
          /\ Len(calls) = 1
          /\ calls[1].language = "javascript"

\* The language "ruby": the sandbox ran javascript and the request got 200.
C23_Witness ==
    /\ Answered("run")
    /\ req.parsed
    /\ req.body.language = "ruby"
    /\ resp.status = 200
    /\ Len(calls) = 2
    /\ \A j \in DOMAIN calls : calls[j].language = "javascript"

\* The sandbox calls of the request that have not ended.
Outstanding == { j \in DOMAIN calls : calls[j].answer.kind \in {"pending", "stalled"} }

\* C26: a hung sandbox call never hangs the request: every sandbox call that
\* does not complete is aborted by the 8,500 ms timer and recorded as a
\* failure of its case only, so a request that passes validation gets its
\* response after at most 12 sandbox calls.
C26_HungCallAborted ==
    req.gw = "run" =>
        /\ \A j \in Outstanding : calls[j].timer = "armed"
        /\ pc # "runStalled"
        /\ Len(calls) <= MAX_CASES_RUN

\* A call that got no response was aborted by the timer, its case recorded as
\* failed, and the request answered 200 after the next case.
C26_Witness ==
    /\ Answered("run")
    /\ resp.status = 200
    /\ Outstanding = {}
    /\ \E j \in DOMAIN calls :
          /\ calls[j].answer.kind = "abort"
          /\ calls[j].timer = "fired"
          /\ ~resp.results[calls[j].case].passed
          /\ resp.results[calls[j].case].stderr = calls[j].answer.message
          /\ j < Len(calls)

\* C27: the cases of a request are processed one after the other: at most
\* one sandbox call of the request is outstanding at any time, and the call
\* for a case starts only after the result of every earlier case was recorded.
C27_Sequential ==
    req.gw = "run" =>
        /\ Cardinality(Outstanding) <= 1
        /\ \A j \in Outstanding : j = Len(calls) /\ Len(results) = calls[j].case - 1
        /\ \A j \in DOMAIN calls : calls[j].case <= Len(results) + 1
        /\ \A j \in DOMAIN calls, k \in DOMAIN calls : j < k => calls[j].case < calls[k].case

\* The call for the third case is outstanding, the results of the first two
\* recorded, one of them from an earlier call.
C27_Witness ==
    /\ req.gw = "run"
    /\ pc = "runPiston"
    /\ Outstanding = {Len(calls)}
    /\ calls[Len(calls)].case = 3
    /\ Len(results) = 2
    /\ Len(calls) >= 2

\* C25: output normalization is idempotent: normalizeOutput of what
\* normalizeOutput returned for a string is that same string; "01" and "1"
\* both normalize to "1", and "  true  " to "true".
C25_Idempotent ==
    (norm.fn = "normalizeOutput" /\ norm.once # NotNormalized) =>
        /\ norm.twice # NotNormalized => norm.twice = norm.once
        /\ norm.arg.s \in {<<"0", "1">>, <<"1">>} => norm.once = Str(<<"1">>)
        /\ norm.arg.s = <<" ", " ", "t", "r", "u", "e", " ", " ">> =>
              norm.once = Str(<<"t", "r", "u", "e">>)

\* A padded JSON text with a number to shorten: normalized once and again,
\* the second time without a change.
C25_Witness ==
    /\ norm.fn = "normalizeOutput"
    /\ norm.arg = Str(<<"{", "\"", "1", "\"", ":", " ", "1", ".", "0", "}">>)
    /\ norm.once = Str(<<"{", "\"", "1", "\"", ":", "1", "}">>)
    /\ norm.twice = norm.once

\* The marker a starter code must contain to be shown for a language
MarkerOf(lang) == IF lang = "python" THEN "py" ELSE "js"

\* The starter code of the selected exercise
SelectedStarter(u) == u.questions.qs[currentQuestion(u).idx + 1].starterCode

\* C21: after any change of the selected exercise or of the language, the
\* editor's source text is the selected exercise's starter code if that holds
\* the marker of the selected language and the language's default scaffold if
\* it does not; a starter code of another exercise or without the marker of
\* the selected language is never in the editor.
C21_StarterGating ==
    [][ /\ ( /\ currentQuestion(ui') # NoQuestion
             /\ \/ currentQuestion(ui') # currentQuestion(ui)
                \/ ui'.language # ui.language )
           => ui'.code = IF SelectedStarter(ui') = MarkerOf(ui'.language)
                         THEN Source("starter", "", currentQuestion(ui'), 0)
                         ELSE defaultStarter(ui'.language)
        /\ (currentQuestion(ui') # NoQuestion /\ ui'.code.kind = "starter")
           => /\ ui'.code.q = currentQuestion(ui')
              /\ SelectedStarter(ui') = MarkerOf(ui'.language) ]_vars

\* The second exercise, whose starter code is JavaScript, is selected with
\* Python as the language, and the editor holds Python's default scaffold.
C21_Witness ==
    /\ currentQuestion(ui) # NoQuestion
    /\ ui.selectedIndex = 1
    /\ SelectedStarter(ui) = "js"
    /\ ui.language = "python"
    /\ ui.code = defaultStarter("python")

\* C22: while an exercise is selected and no run is in flight, a run trigger
\* always starts a run: the Run and Submit buttons and the keyboard shortcut
\* each send a run request, also after an earlier run has completed.
C22_TriggerStartsRun ==
    (currentQuestion(ui) # NoQuestion /\ ui.runs = <<>>) =>
        \A mode \in {"run", "submit"} :
            /\ Len(runCode(ui, mode, ui.runLoading).runs) = 1
            /\ Len(runCode(ui, mode, ui.kbRunLoading).runs) = 1

\* C30: a run result the page holds was produced by a run of the currently
\* selected exercise; the response to a run of another exercise (one that
\* arrives after the selection changed or the list was generated again) is
\* neither stored nor used to move the active test-case index.
C30_ResultOfSelected ==
    [][ /\ ui'.runResult # NoRunResult => ui'.runResult.q = currentQuestion(ui')
        /\ \A k \in DOMAIN ui.runs :
              (ui'.runs = Without(ui.runs, k) /\ ui.runs[k].q # currentQuestion(ui))
                 => /\ ui'.runResult = ui.runResult
                    /\ ui'.activeCaseIndex = ui.activeCaseIndex ]_vars

\* C24: the preferences saved in local storage are applied at mount only if
\* present and well-formed: whatever local storage held, the selected language
\* is javascript, typescript or python in every state of the page.
C24_LanguageWellFormed ==
    ui.language \in {"javascript", "typescript", "python"}

====
